---- MODULE Spec2Model ----
(***************************************************************************)
(* Terradozer: the refresh and destroy pipeline of mainExitCode, the       *)
(* worker pools of UpdateResources and DestroyResources, Resource.Destroy  *)
(* and the provider adapter's DestroyResource (Spec, FairSpec); one call   *)
(* of the adapter's ImportResource, ReadResource or DestroyResource with   *)
(* its retry loop and the force-destroy coercion (AdapterSpec); the state  *)
(* file, ProviderNames, InitProviders with Install, Launch and Configure,  *)
(* State.Resources and what mainExitCode passes on from them (LoadSpec);   *)
(* one run of a worker pool, goroutine by goroutine, for every value of    *)
(* -parallel (PoolSpec, PoolFairSpec); one call of Resource.UpdateState,   *)
(* provider call by provider call (UpdateSpec).                            *)
(***************************************************************************)
EXTENDS Integers, Sequences, FiniteSets, TLC

\* ------------------------------------------------------------------ bounds
NumRes == 3
MaxParallel == 2
\* number of RPCs that fit into the retry budget of one adapter call
MaxAttempts == 2
\* number of RPCs that may outlive their adapter call
MaxOrphans == 1
\* number of resource instances in a state file
MaxEntries == 2
\* length of the list of provider addresses of a state file
MaxAddrs == 3
\* number of resources one ImportResource call returns
MaxImported == 2

Res == 1..NumRes
NoRes == 0

VARIABLES
    entry,          \* "main": mainExitCode; "lib": the package API used directly
    parallel,       \* the -parallel flag / the parallel argument
    dryRun, force,  \* the -dry-run and -force flags
    faults,         \* whether the provider's RPCs may fail on their own
    parent,         \* parent[r] = d: resource r depends on d (NoRes: on nothing)
    ext,            \* resources with a dependent that is not in the state file
    exists,         \* exists[r]: the resource exists remotely
    state,          \* the state pointer of each Resource
    pc,             \* position of the calling goroutine
    exitCode,       \* exit code of mainExitCode, -1 while running
    jobQueueU,      \* UpdateResources: jobQueue
    resultsU,       \* UpdateResources: workerResults
    updated,        \* UpdateResources: updatedResources
    gotU,           \* UpdateResources: results received so far
    jobQueue,       \* DestroyResources (current run): jobQueue
    workerResults,  \* DestroyResources (current run): workerResults
    frames,         \* the stack of DestroyResources invocations
    returned,       \* value returned by the outermost DestroyResources, -1 before
    act,            \* act[r]: what the worker that received r is doing with it
    orphans,        \* orphans[r]: RPCs for r still in flight after their call returned
    refreshed,      \* history: how the refresh of each resource ended
    destroyCalls,   \* history: number of Destroy calls per resource
    lastErr,        \* history: what the Destroy call of r returned in the current run
    reported,       \* history: the lists logged under "retries exceeded"
    prelude,        \* history: the steps mainExitCode has completed before the refresh
    fatal,          \* history: the fatal error mainExitCode has printed, "none" if none
    answer,         \* history: the line UserConfirmedDeletion has read, "none" if none
    call,           \* one call of the provider adapter, looked at on its own
    stateFile,      \* the file at the path given on the command line
    fileOps,        \* history: the operations performed on that file
    installDir,     \* the plugin binaries in ~/.terradozer
    downloads,      \* history: number of calls of providerInstaller.Get
    run,            \* mainExitCode, looked at from state.New on: position and result
    names,          \* what ProviderNames returned
    initCalls,      \* history: the calls of Init: the provider name, the step it ended at
    providers,      \* InitProviders: the providers map (name -> plugin, 0: no entry)
    plugins,        \* the plugin subprocesses launched so far
    resources,      \* what State.Resources returned
    stateUpdates,   \* history: the state entries UpdateState was called for
    destroys,       \* history: the state entries Destroy was called for
    pool,           \* one run of a worker pool, looked at goroutine by goroutine
    update          \* one call of Resource.UpdateState, looked at call by call

cfgVars == <<entry, parallel, dryRun, force, faults, parent, ext>>
updVars == <<jobQueueU, resultsU, updated, gotU>>
desVars == <<jobQueue, workerResults, frames, returned>>
histVars == <<refreshed, destroyCalls, lastErr, reported>>
mainVars == <<prelude, fatal, answer>>
pipelineVars == <<cfgVars, mainVars, exists, state, pc, exitCode, updVars, desVars, act,
                  orphans, histVars>>
loadVars == <<stateFile, fileOps, installDir, downloads, run, names, initCalls, providers,
              plugins, resources, stateUpdates, destroys>>
unitVars == <<pool, update>>
vars == <<pipelineVars, call, loadVars, unitVars>>

\* ------------------------------------------------------------- helpers
Range(s) == {s[i] : i \in 1..Len(s)}

RECURSIVE SeqOfSet(_)
\* the sorted list of a set of resources (lookupAllResourceInstanceAddrs sorts)
SeqOfSet(S) ==
    IF S = {} THEN <<>>
    ELSE LET m == CHOOSE x \in S : \A y \in S : x <= y
         IN <<m>> \o SeqOfSet(S \ {m})

RECURSIVE Ancestors(_, _, _)
\* the resources that r transitively depends on under p, following at most k links
Ancestors(p, r, k) ==
    IF k = 0 \/ p[r] = NoRes THEN {}
    ELSE {p[r]} \cup Ancestors(p, p[r], k - 1)

Acyclic(p) == \A r \in Res : r \notin Ancestors(p, r, NumRes)

\* every resource depends on at most one other resource, without cycles
Forests == {p \in [Res -> Res \cup {NoRes}] : Acyclic(p)}

\* whether something that depends on r still exists remotely
Blocked(r) == r \in ext \/ \E d \in Res : parent[d] = r /\ exists[d]

\* ------------------------------------------------- provider adapter: errors
\* A diagnostic's printed form is modelled by the set of words it contains;
\* the empty set is "no diagnostics".
NoDiag == {}

Contains(msg, code) == code \in msg

retryableCodes == {"RequestError", "RequestTimeout", "ResponseTimeout", "RequestTimeoutException"}

throttleCodes ==
    {"ProvisionedThroughputExceededException", "ThrottledException", "Throttling",
     "ThrottlingException", "RequestLimitExceeded", "RequestThrottled",
     "RequestThrottledException", "TooManyRequestsException", "PriorRequestNotComplete",
     "TransactionInProgressException", "EC2ThrottledException"}

credsExpiredCodes == {"ExpiredToken", "ExpiredTokenException", "RequestExpired"}

isCodeExpiredCreds(err) == \E c \in credsExpiredCodes : Contains(err, c)

isCodeRetryable(err) == (\E c \in retryableCodes : Contains(err, c)) \/ isCodeExpiredCreds(err)

isCodeThrottle(err) == \E c \in throttleCodes : Contains(err, c)

shouldRetry(err) == isCodeRetryable(err) \/ isCodeThrottle(err)

HasErrors(diags) == diags # NoDiag

\* Go error values: nil, a plain error, or a *RetryDestroyError
Nil == [type |-> "nil", msg |-> {}, res |-> NoRes]
PlainError(m) == [type |-> "error", msg |-> m, res |-> NoRes]

TimedOutMsg == {"destroy timed out"}
NilStateMsg == {"resource state is nil; need to call update first"}

\* ------------------------------------------------------ the plugin (remote)
DependencyViolation == {"DependencyViolation"}

\* diagnostics a plugin may return on its own account
FaultDiags == {{"Throttling"}, {"AccessDenied"}}

\* the diagnostics ApplyResourceChange may answer with for resource r
ApplyOutcomes(r) ==
    (IF Blocked(r) THEN {DependencyViolation} ELSE {NoDiag})
        \cup (IF faults THEN FaultDiags ELSE {})

\* the outcomes of ReadResource for resource r: the new state, or a failure
ReadOutcomes(r) ==
    {[st |-> IF exists[r] THEN "known" ELSE "null", err |-> FALSE]}
        \cup (IF faults THEN {[st |-> state[r], err |-> TRUE]} ELSE {})

\* ------------------------------------------------ one call of the adapter
\* cty values: null, a value that cannot be iterated, or an object, given by
\* what each attribute holds ("absent": the object has no such attribute)
Attrs == {"force_destroy", "force_detach_policies", "id"}
ForceAttrs == {"force_destroy", "force_detach_policies"}
AttrVals == {"absent", "true", "false", "str"}
NoAttrs == [k \in Attrs |-> "absent"]

CtyNull == [kind |-> "null", attrs |-> NoAttrs]
CtyStates ==
    {CtyNull, [kind |-> "prim", attrs |-> NoAttrs]}
        \cup {[kind |-> "object", attrs |-> a] : a \in [Attrs -> AttrVals]}

IsBool(v) == v \in {"true", "false"}

\* enableForceDestroyAttributes flipping the force attributes
enableForceDestroyAttributes_Toggle(st) ==
    IF st.kind = "null" THEN st
    ELSE IF st.kind = "object"
         THEN [kind |-> "object",
               attrs |-> [k \in Attrs |->
                             IF k \in ForceAttrs
                             THEN (IF IsBool(st.attrs[k])
                                   THEN (IF st.attrs[k] = "true" THEN "false" ELSE "true")
                                   ELSE "absent")
                             ELSE st.attrs[k]]]
         ELSE [kind |-> "object", attrs |-> NoAttrs]

enableForceDestroyAttributes(st) ==
    IF st.kind = "null" THEN st
    ELSE IF st.kind = "object"
         THEN [kind |-> "object",
               attrs |-> [k \in Attrs |->
                             IF k \in ForceAttrs
                             THEN (IF IsBool(st.attrs[k]) THEN "true" ELSE "absent")
                             ELSE st.attrs[k]]]
         ELSE [kind |-> "object", attrs |-> NoAttrs]

Ops == {"ImportResource", "ReadResource", "DestroyResource"}
\* values of the -timeout flag, in seconds
Timeouts == {2, 30}
\* the budget ImportResource and ReadResource give to resource.Retry, in seconds
ImportReadBudget == 30

\* the budget that the call gives to resource.Retry
RetryBudget(op, timeout) == IF op = "DestroyResource" THEN timeout ELSE ImportReadBudget

\* the request's state argument
PriorState(op, st) == IF op = "DestroyResource" THEN enableForceDestroyAttributes(st) ELSE st

\* diagnostics the plugin may answer an RPC with
AdapterDiags == {NoDiag, {"Throttling"}, {"RequestError"}, {"ExpiredToken"}, {"SomeError"}}

\* the errors of an adapter call
NoError == [kind |-> "nil", msg |-> NoDiag, op |-> "", budget |-> 0]
DiagError(d) == [kind |-> "diagnostics", msg |-> d, op |-> "", budget |-> 0]
TimedOutError(op, timeout) == [kind |-> "timed out", msg |-> NoDiag, op |-> op, budget |-> timeout]

\* what the call returns once resource.Retry has returned, retryErr telling
\* whether Retry returned an error; timeout is p.timeout
AdapterReturn(op, response, retryErr, timeout) ==
    IF HasErrors(response) THEN DiagError(response)
    ELSE IF retryErr THEN TimedOutError(op, timeout)
    ELSE NoError

NotSent == [kind |-> "none", attrs |-> NoAttrs]
NotReturned == [kind |-> "none", msg |-> NoDiag, op |-> "", budget |-> 0]

NoAdapterCall ==
    [op |-> "", timeout |-> 0, prior |-> CtyNull, sent |-> NotSent, st |-> "none", rpcs |-> 0,
     response |-> NoDiag, answers |-> <<>>, expired |-> FALSE, err |-> NotReturned, late |-> 0]

\* ----------------------------------------- the state file and the plugin host
\* provider configurations in compact form (ProviderConfig.StringCompact): a
\* provider type, or a type and an alias
ProviderKeys == {"aws", "aws.west", "google"}

\* config(name): the providers with a built-in configuration
Supported == {"aws"}

\* config(name): the version that is installed for a supported provider
PinnedVersion == "2.68.0"

\* the default provider configuration of a resource type
\* (Resource.DefaultProviderConfig): the provider the type's name starts with
TypeProviders == {"aws", "google"}

\* the provider configurations that the state file may record for a resource
\* whose type belongs to provider typ
RecordedAs(typ) == IF typ = "aws" THEN {"aws", "aws.west"} ELSE {"google"}

\* a resource instance of the state file: its mode, the default provider of
\* its type, the provider configuration recorded for it, and whether its id
\* and its attributes can be decoded
Entries ==
    {e \in [mode : {"managed", "data"}, typ : TypeProviders, prov : ProviderKeys,
            shape : {"ok", "noid", "nodecode"}] : e.prov \in RecordedAs(e.typ)}

SeqsUpTo(S, n) == UNION {[1..k -> S] : k \in 0..n}

NoFile == [present |-> FALSE, wellFormed |-> FALSE, addrs |-> <<>>, res |-> <<>>]
MalformedFile == [present |-> TRUE, wellFormed |-> FALSE, addrs |-> <<>>, res |-> <<>>]

\* the state files: res lists the resource instances in the order of
\* lookupAllResourceInstanceAddrs, addrs the compact form of each address of
\* state.ProviderAddrs(): every provider configuration that a resource of the
\* file is recorded with, more than once when modules share it
StateFiles ==
    {NoFile, MalformedFile} \cup
    {[present |-> TRUE, wellFormed |-> TRUE, addrs |-> a, res |-> r] :
        <<a, r>> \in {x \in SeqsUpTo(ProviderKeys, MaxAddrs) \X SeqsUpTo(Entries, MaxEntries) :
                        Range(x[1]) = {x[2][i].prov : i \in 1..Len(x[2])}}}

\* a plugin binary of the install directory; a version that does not parse
\* is "bad"
Versions == {"2.68.0", "2.43.0", "bad"}
Binaries == [name : Supported, version : Versions]
NoMeta == [name |-> "", version |-> ""]

NoProviders == [k \in ProviderKeys |-> 0]
NoRun == [pc |-> "none", exit |-> -1, fatal |-> "none", updated |-> {}, answer |-> "none"]

\* the goroutines a pool can start, and a goroutine that has not been started
Workers == 1..MaxParallel
NoWorker == [pc |-> "none", job |-> NoRes]

\* no worker pool is looked at
NoPool == [kind |-> "none", pc |-> "none", n |-> 0, queued |-> 0,
           jobQueue |-> <<>>, closed |-> FALSE, workerResults |-> <<>>, got |-> 0,
           w |-> [i \in Workers |-> NoWorker],
           takers |-> [r \in Res |-> {}],
           calls |-> [r \in Res |-> 0],
           sent |-> [r \in Res |-> 0]]

\* no call of UpdateState is looked at
NoState == [from |-> "none", idx |-> 0, typ |-> "", val |-> "nil"]
NoUpdate == [pc |-> "none", hasState |-> FALSE, imported |-> <<>>, i |-> 0,
             calls |-> <<>>, adopted |-> NoState, err |-> "none"]

UnitIdle == pool = NoPool /\ update = NoUpdate

\* nothing of the start of the program is looked at
LoadIdle ==
    /\ stateFile = NoFile /\ fileOps = <<>>
    /\ installDir = {} /\ downloads = 0
    /\ run = NoRun
    /\ names = <<>> /\ initCalls = <<>>
    /\ providers = NoProviders /\ plugins = <<>>
    /\ resources = <<>>
    /\ stateUpdates = {} /\ destroys = {}

\* ------------------------------------------------------------------ Init
Answers == {"YES", "yes"}

NoDeps == [r \in Res |-> NoRes]
AllExist == [r \in Res |-> TRUE]

NoJob == [pc |-> "none", attempts |-> 0, resp |-> NoDiag]
\* no Destroy call has returned yet
NoCall == [type |-> "none", msg |-> {}, res |-> NoRes]

\* mainExitCode gets its resources from State.Resources, which builds them with
\* NewWithState; the package API used directly builds them with New (no state).
\* The remote side either fails on its own account (faults) or exactly because
\* of the dependencies between the resources.
Init ==
    /\ entry \in {"main", "lib"}
    /\ parallel \in 1..MaxParallel
    /\ faults \in BOOLEAN
    /\ dryRun \in (IF entry = "main" /\ faults THEN BOOLEAN ELSE {FALSE})
    /\ force \in (IF entry = "main" THEN BOOLEAN ELSE {FALSE})
    /\ parent \in (IF faults THEN {NoDeps} ELSE Forests)
    /\ ext \in (IF faults THEN {{}} ELSE {S \in SUBSET Res : Cardinality(S) <= 1})
    /\ exists \in (IF entry = "main" /\ faults THEN [Res -> BOOLEAN] ELSE {AllExist})
    /\ state = [r \in Res |-> IF entry = "main" THEN "prior" ELSE "nil"]
    /\ pc = "start"
    /\ exitCode = -1
    /\ jobQueueU = <<>> /\ resultsU = <<>> /\ updated = <<>> /\ gotU = 0
    /\ jobQueue = <<>> /\ workerResults = <<>> /\ frames = <<>> /\ returned = -1
    /\ act = [r \in Res |-> NoJob]
    /\ orphans = [r \in Res |-> 0]
    /\ refreshed = [r \in Res |-> "no"]
    /\ destroyCalls = [r \in Res |-> 0]
    /\ lastErr = [r \in Res |-> NoCall]
    /\ reported = <<>>
    /\ prelude = <<>> /\ fatal = "none" /\ answer = "none"
    /\ call = NoAdapterCall
    /\ LoadIdle
    /\ UnitIdle

\* the resources that a worker of the current pool is working on
InWork == {r \in Res : act[r].pc # "none"}

\* whether a worker of the current pool waits at its range loop
SomeWorkerIdle == Cardinality(InWork) < parallel

RECURSIVE Sum(_, _)
Sum(f, S) == IF S = {} THEN 0 ELSE LET x == CHOOSE y \in S : TRUE IN f[x] + Sum(f, S \ {x})

\* ------------------------------------------------------ Resource.UpdateState
\* the resource's state field after UpdateState, and whether it returned an error
UpdateState(r) == ReadOutcomes(r)

\* -------------------------------------------------------------- mainExitCode
\* mainExitCode returning 0 after printing the error named what
Fatal_ExitZero(what) ==
    /\ pc' = "done" /\ exitCode' = 0
    /\ fatal' = what
    /\ UNCHANGED <<call, loadVars, unitVars,
                   cfgVars, prelude, answer, exists, state, updVars, desVars, act, orphans,
                   histVars>>

\* mainExitCode returns 1 after printing the error named what
Fatal(what) ==
    /\ pc' = "done" /\ exitCode' = 1
    /\ fatal' = what
    /\ UNCHANGED <<call, loadVars, unitVars,
                   cfgVars, prelude, answer, exists, state, updVars, desVars, act, orphans,
                   histVars>>

\* mainExitCode goes on to position next, having completed the steps in done
Proceed(next, done) ==
    /\ pc' = next
    /\ prelude' = prelude \o done
    /\ UNCHANGED <<call, loadVars, unitVars,
                   cfgVars, fatal, answer, exists, state, exitCode, updVars, desVars, act,
                   orphans, histVars>>

Main_FlagConflict ==
    /\ pc = "start" /\ entry = "main"
    /\ force /\ dryRun
    /\ Fatal("flags")

\* time.ParseDuration(timeout) reached although -force and -dry-run are both set
Main_ParseDuration_Unguarded ==
    /\ pc = "start" /\ entry = "main"
    /\ \E ok \in BOOLEAN : IF ok THEN Proceed("args", <<>>) ELSE Fatal("timeout")

\* time.ParseDuration(timeout)
Main_ParseDuration ==
    /\ pc = "start" /\ entry = "main"
    /\ ~(force /\ dryRun)
    /\ \E ok \in BOOLEAN : IF ok THEN Proceed("args", <<>>) ELSE Fatal("timeout")

\* len(args) == 0
Main_StatePath ==
    /\ pc = "args"
    /\ \E given \in BOOLEAN : IF given THEN Proceed("state", <<>>) ELSE Fatal("args")

\* state.New(pathToState)
Main_StateNew ==
    /\ pc = "state"
    /\ \E ok \in BOOLEAN : IF ok THEN Proceed("providers", <<"state">>) ELSE Fatal("state")

\* provider.InitProviders(tfstate.ProviderNames(), ...)
Main_InitProviders ==
    /\ pc = "providers"
    /\ \E ok \in BOOLEAN : IF ok THEN Proceed("resources", <<"providers">>)
                                  ELSE Fatal("providers")

\* tfstate.Resources(providers)
Main_Resources ==
    /\ pc = "resources"
    /\ \E ok \in BOOLEAN : IF ok THEN Proceed("ready", <<"resources">>) ELSE Fatal("resources")

\* UpdateResources up to close(jobQueue)
UpdateResources_Start ==
    /\ pc = "ready"
    /\ jobQueueU' = SeqOfSet(Res)
    /\ resultsU' = <<>> /\ updated' = <<>> /\ gotU' = 0
    /\ pc' = "updating"
    /\ UNCHANGED <<call, loadVars, unitVars,
                   cfgVars, mainVars, exists, state, exitCode, desVars, act, orphans,
                   histVars>>

\* an idle updateWorker receives the next job
updateWorker_Take ==
    /\ pc = "updating"
    /\ SomeWorkerIdle
    /\ jobQueueU # <<>>
    /\ act' = [act EXCEPT ![Head(jobQueueU)] = [NoJob EXCEPT !.pc = "update"]]
    /\ jobQueueU' = Tail(jobQueueU)
    /\ UNCHANGED <<call, loadVars, unitVars,
                   cfgVars, mainVars, exists, state, pc, exitCode, resultsU, updated, gotU,
                   desVars, orphans, histVars>>

\* updateWorker reporting only the error of UpdateState, not a null state
updateWorker_Update_ErrOnly(r) ==
    /\ act[r].pc = "update"
    /\ \E o \in UpdateState(r) :
          /\ state' = [state EXCEPT ![r] = o.st]
          /\ resultsU' = Append(resultsU, [resource |-> r, err |-> o.err])
          /\ refreshed' = [refreshed EXCEPT ![r] =
                              IF o.err THEN "error" ELSE IF o.st = "null" THEN "gone" ELSE "ok"]
    /\ act' = [act EXCEPT ![r] = NoJob]
    /\ UNCHANGED <<call, loadVars, unitVars,
                   cfgVars, mainVars, exists, pc, exitCode, jobQueueU, updated, gotU, desVars,
                   orphans, destroyCalls, lastErr, reported>>

\* r.UpdateState() and the send of the result
updateWorker_Update(r) ==
    /\ act[r].pc = "update"
    /\ \E o \in UpdateState(r) :
          /\ state' = [state EXCEPT ![r] = o.st]
          /\ resultsU' = Append(resultsU, [resource |-> r, err |-> (o.err \/ o.st = "null")])
          /\ refreshed' = [refreshed EXCEPT ![r] =
                              IF o.err THEN "error" ELSE IF o.st = "null" THEN "gone" ELSE "ok"]
    /\ act' = [act EXCEPT ![r] = NoJob]
    /\ UNCHANGED <<call, loadVars, unitVars,
                   cfgVars, mainVars, exists, pc, exitCode, jobQueueU, updated, gotU, desVars,
                   orphans, destroyCalls, lastErr, reported>>

\* the receive loop of UpdateResources keeping every resource, failed or not
UpdateResources_Receive_KeepAll ==
    /\ pc = "updating"
    /\ resultsU # <<>>
    /\ updated' = Append(updated, Head(resultsU).resource)
    /\ resultsU' = Tail(resultsU)
    /\ gotU' = gotU + 1
    /\ pc' = IF gotU + 1 = NumRes THEN "updated" ELSE "updating"
    /\ UNCHANGED <<call, loadVars, unitVars,
                   cfgVars, mainVars, exists, state, exitCode, jobQueueU, desVars, act,
                   orphans, histVars>>

\* the receive loop of UpdateResources returning at the first failed result
UpdateResources_Receive_StopOnError ==
    /\ pc = "updating"
    /\ resultsU # <<>>
    /\ LET r == Head(resultsU) IN
       /\ updated' = IF r.err THEN updated ELSE Append(updated, r.resource)
       /\ pc' = IF r.err \/ gotU + 1 = NumRes THEN "updated" ELSE "updating"
    /\ resultsU' = Tail(resultsU)
    /\ gotU' = gotU + 1
    /\ UNCHANGED <<call, loadVars, unitVars,
                   cfgVars, mainVars, exists, state, exitCode, jobQueueU, desVars, act,
                   orphans,
                   histVars>>

\* one iteration of the receive loop of UpdateResources; the last one returns
UpdateResources_Receive ==
    /\ pc = "updating"
    /\ resultsU # <<>>
    /\ LET r == Head(resultsU) IN
       updated' = IF r.err THEN updated ELSE Append(updated, r.resource)
    /\ resultsU' = Tail(resultsU)
    /\ gotU' = gotU + 1
    /\ pc' = IF gotU + 1 = NumRes THEN "updated" ELSE "updating"
    /\ UNCHANGED <<call, loadVars, unitVars,
                   cfgVars, mainVars, exists, state, exitCode, jobQueueU, desVars, act,
                   orphans, histVars>>

\* ------------------------------------------------------ DestroyResources
NewFrame(input) == [input |-> input, deleted |-> 0, retry |-> <<>>, got |-> 0]

Top == frames[Len(frames)]

\* DestroyResources(input, parallel) up to close(jobQueue): a new invocation
Launch(input) ==
    /\ frames' = Append(frames, NewFrame(input))
    /\ jobQueue' = input
    /\ workerResults' = <<>>
    /\ lastErr' = [r \in Res |-> IF r \in Range(input) THEN NoCall ELSE lastErr[r]]
    /\ pc' = "destroying"

\* internal.UserConfirmedDeletion(os.Stdin, force)
UserConfirmedDeletion(line, forced) == forced \/ line = "YES"

\* the confirmation asked for although no resource is left
Main_AllAlreadyDeleted_Prompt ==
    /\ pc = "updated"
    /\ ~force /\ Len(updated) = 0
    /\ \E a \in Answers : answer' = a
    /\ pc' = "done" /\ exitCode' = 0
    /\ UNCHANGED <<call, loadVars, unitVars,
                   cfgVars, prelude, fatal, exists, state, updVars, desVars, act,
                   orphans, histVars>>

\* len(resourcesWithUpdatedState) == 0 without -force: "all resources have
\* already been deleted", return 0
Main_AllAlreadyDeleted ==
    /\ pc = "updated"
    /\ ~force /\ Len(updated) = 0
    /\ pc' = "done" /\ exitCode' = 0
    /\ UNCHANGED <<call, loadVars, unitVars,
                   cfgVars, mainVars, exists, state, updVars, desVars, act, orphans,
                   histVars>>

Main_DryRunEnd ==
    /\ pc = "updated"
    /\ ~(~force /\ Len(updated) = 0)
    /\ dryRun
    /\ pc' = "done" /\ exitCode' = 0
    /\ UNCHANGED <<call, loadVars, unitVars,
                   cfgVars, mainVars, exists, state, updVars, desVars, act, orphans,
                   histVars>>

Main_NotConfirmed ==
    /\ pc = "updated"
    /\ ~(~force /\ Len(updated) = 0)
    /\ ~dryRun
    /\ \E a \in Answers : ~UserConfirmedDeletion(a, force) /\ answer' = a
    /\ pc' = "done" /\ exitCode' = 0
    /\ UNCHANGED <<call, loadVars, unitVars,
                   cfgVars, prelude, fatal, exists, state, updVars, desVars, act,
                   orphans, histVars>>

\* the block of line 138 entered whatever -dry-run is
Main_DestroyResources_DryRun ==
    /\ pc = "updated"
    /\ ~(~force /\ Len(updated) = 0)
    /\ \E a \in Answers : /\ UserConfirmedDeletion(a, force)
                            /\ answer' = IF force THEN answer ELSE a
    /\ Launch(updated)
    /\ UNCHANGED <<call, loadVars, unitVars,
                   cfgVars, prelude, fatal, exists, state, exitCode, updVars, returned, act,
                   orphans, refreshed, destroyCalls, reported>>

\* DestroyResources called whatever UserConfirmedDeletion returns
Main_DestroyResources_Unconfirmed ==
    /\ pc = "updated"
    /\ ~(~force /\ Len(updated) = 0)
    /\ ~dryRun
    /\ \E a \in Answers : answer' = IF force THEN answer ELSE a
    /\ Launch(updated)
    /\ UNCHANGED <<call, loadVars, unitVars,
                   cfgVars, prelude, fatal, exists, state, exitCode, updVars, returned, act,
                   orphans, refreshed, destroyCalls, reported>>

\* DestroyResources called with every resource of the state, refreshed or not
Main_DestroyResources_All ==
    /\ pc = "updated"
    /\ ~(~force /\ Len(updated) = 0)
    /\ ~dryRun
    /\ \E a \in Answers : /\ UserConfirmedDeletion(a, force)
                            /\ answer' = IF force THEN answer ELSE a
    /\ Launch(SeqOfSet(Res))
    /\ UNCHANGED <<call, loadVars, unitVars,
                   cfgVars, prelude, fatal, exists, state, exitCode, updVars, returned, act,
                   orphans, refreshed, destroyCalls, reported>>

Main_DestroyResources ==
    /\ pc = "updated"
    /\ ~(~force /\ Len(updated) = 0)
    /\ ~dryRun
    /\ \E a \in Answers : /\ UserConfirmedDeletion(a, force)
                            /\ answer' = IF force THEN answer ELSE a
    /\ Launch(updated)
    /\ UNCHANGED <<call, loadVars, unitVars,
                   cfgVars, prelude, fatal, exists, state, exitCode, updVars, returned,
                   act, orphans,
                   refreshed, destroyCalls, reported>>

\* the package API used directly, as the package's tests do: r.UpdateState() on
\* some of the resources, then DestroyResources on all of them
Lib_UpdateState(r) ==
    /\ pc = "start" /\ entry = "lib"
    /\ state[r] = "nil"
    /\ \E o \in UpdateState(r) :
          /\ state' = [state EXCEPT ![r] = o.st]
          /\ refreshed' = [refreshed EXCEPT ![r] =
                              IF o.err THEN "error" ELSE IF o.st = "null" THEN "gone" ELSE "ok"]
    /\ UNCHANGED <<call, loadVars, unitVars,
                   cfgVars, mainVars, exists, pc, exitCode, updVars, desVars, act, orphans,
                   destroyCalls, lastErr, reported>>

Lib_DestroyResources ==
    /\ pc = "start" /\ entry = "lib"
    /\ Launch(SeqOfSet(Res))
    /\ UNCHANGED <<call, loadVars, unitVars,
                   cfgVars, mainVars, exists, state, exitCode, updVars, returned, act,
                   orphans,
                   refreshed, destroyCalls, reported>>

\* ------------------------------------------- Resource.Destroy and the adapter
NewRetryDestroyError(err, r) ==
    IF err = Nil THEN Nil ELSE [type |-> "RetryDestroyError", msg |-> err.msg, res |-> r]

\* what TerraformProvider.DestroyResource returns after resource.Retry has returned:
\* response is the last response written, retryErr whether Retry returned an error
DestroyResourceReturn(response, retryErr) ==
    IF HasErrors(response) THEN PlainError(response)
    ELSE IF retryErr THEN PlainError(TimedOutMsg)
    ELSE Nil

\* Resource.Destroy handing the provider's error on as it is
ResourceDestroyReturn_Unwrapped(r, perr) == perr

\* Resource.Destroy wrapping only the failures that shouldRetry classifies
ResourceDestroyReturn_Classified(r, perr) ==
    IF perr # Nil
    THEN IF shouldRetry(perr.msg) THEN NewRetryDestroyError(perr, r) ELSE perr
    ELSE Nil

\* what Resource.Destroy returns once the provider has returned perr
ResourceDestroyReturn(r, perr) ==
    IF perr # Nil THEN NewRetryDestroyError(perr, r) ELSE Nil

\* the workerResult that workerDestroy sends for the error of r.Destroy()
WorkerResultOf(err) ==
    IF err # Nil
    THEN IF err.type = "RetryDestroyError"
         THEN [resourceHasBeenDeleted |-> FALSE, Err |-> err]
         ELSE [resourceHasBeenDeleted |-> FALSE, Err |-> Nil]
    ELSE [resourceHasBeenDeleted |-> TRUE, Err |-> Nil]

\* workerDestroy sending every error of r.Destroy() as a retryable one
Finish_RetryEvery(r, err) ==
    /\ lastErr' = [lastErr EXCEPT ![r] = err]
    /\ workerResults' = Append(workerResults,
                               IF err # Nil
                               THEN [resourceHasBeenDeleted |-> FALSE,
                                     Err |-> [err EXCEPT !.res = r]]
                               ELSE WorkerResultOf(err))
    /\ act' = [act EXCEPT ![r] = NoJob]

\* r.Destroy() has returned err: the worker sends its result and is idle again
Finish(r, err) ==
    /\ lastErr' = [lastErr EXCEPT ![r] = err]
    /\ workerResults' = Append(workerResults, WorkerResultOf(err))
    /\ act' = [act EXCEPT ![r] = NoJob]

\* r.Destroy() without the check of line 120
workerDestroy_Take_Unchecked ==
    /\ pc = "destroying"
    /\ SomeWorkerIdle
    /\ jobQueue # <<>>
    /\ LET r == Head(jobQueue) IN
       /\ destroyCalls' = [destroyCalls EXCEPT ![r] = @ + 1]
       /\ act' = [act EXCEPT ![r] = [NoJob EXCEPT !.pc = "rpc"]]
       /\ UNCHANGED <<lastErr, workerResults>>
    /\ jobQueue' = Tail(jobQueue)
    /\ UNCHANGED <<call, loadVars, unitVars,
                   cfgVars, mainVars, exists, state, pc, exitCode, updVars, frames, returned,
                   orphans, refreshed, reported>>

\* an idle worker receives a job and calls r.Destroy(), which checks the state
\* and calls DestroyResource, whose retry function sends ApplyResourceChange
workerDestroy_Take ==
    /\ pc = "destroying"
    /\ SomeWorkerIdle
    /\ jobQueue # <<>>
    /\ LET r == Head(jobQueue) IN
       /\ destroyCalls' = [destroyCalls EXCEPT ![r] = @ + 1]
       /\ IF state[r] = "nil"
          THEN Finish(r, PlainError(NilStateMsg))
          ELSE /\ act' = [act EXCEPT ![r] = [NoJob EXCEPT !.pc = "rpc"]]
               /\ UNCHANGED <<lastErr, workerResults>>
    /\ jobQueue' = Tail(jobQueue)
    /\ UNCHANGED <<call, loadVars, unitVars,
                   cfgVars, mainVars, exists, state, pc, exitCode, updVars, frames, returned,
                   orphans, refreshed, reported>>

\* ApplyResourceChange answers; a retryable diagnostic repeats the RPC while the
\* budget lasts (the next RPC is sent), anything else ends resource.Retry
Provider_ApplyReturn(r) ==
    /\ act[r].pc = "rpc"
    /\ \E out \in ApplyOutcomes(r) :
          /\ exists' = IF HasErrors(out) THEN exists ELSE [exists EXCEPT ![r] = FALSE]
          /\ IF HasErrors(out) /\ shouldRetry(out)
             THEN IF act[r].attempts + 1 < MaxAttempts
                  THEN /\ act' = [act EXCEPT ![r] = [pc |-> "rpc",
                                                     attempts |-> @.attempts + 1, resp |-> out]]
                       /\ UNCHANGED <<lastErr, workerResults>>
                  ELSE Finish(r, ResourceDestroyReturn(r, DestroyResourceReturn(out, TRUE)))
             ELSE Finish(r, ResourceDestroyReturn(r, DestroyResourceReturn(out, FALSE)))
    /\ UNCHANGED <<call, loadVars, unitVars,
                   cfgVars, mainVars, state, pc, exitCode, updVars, jobQueue, frames,
                   returned,
                   orphans, refreshed, destroyCalls, reported>>

\* the budget (and the grace period of resource.Retry) expires while the RPC is
\* still running: Retry returns a timeout, the RPC stays in flight
Provider_RetryTimeout(r) ==
    /\ act[r].pc = "rpc"
    /\ faults
    /\ Sum(orphans, Res) < MaxOrphans
    /\ orphans' = [orphans EXCEPT ![r] = @ + 1]
    /\ Finish(r, ResourceDestroyReturn(r, DestroyResourceReturn(act[r].resp, TRUE)))
    /\ UNCHANGED <<call, loadVars, unitVars,
                   cfgVars, mainVars, exists, state, pc, exitCode, updVars, jobQueue,
                   frames, returned,
                   refreshed, destroyCalls, reported>>

\* an RPC whose call has already returned is answered
Orphan_Return(r) ==
    /\ orphans[r] > 0
    /\ \E out \in ApplyOutcomes(r) :
          exists' = IF HasErrors(out) THEN exists ELSE [exists EXCEPT ![r] = FALSE]
    /\ orphans' = [orphans EXCEPT ![r] = @ - 1]
    /\ UNCHANGED <<call, loadVars, unitVars,
                   cfgVars, mainVars, state, pc, exitCode, updVars, desVars, act, histVars>>

\* the receive loop counting a deletion only while no failure has arrived
DestroyResources_Receive_DropAfterFailure ==
    /\ pc = "destroying"
    /\ Top.got < Len(Top.input)
    /\ workerResults # <<>>
    /\ LET result == Head(workerResults)
           f == Top
           g == IF result.resourceHasBeenDeleted
                THEN IF f.retry = <<>> THEN [f EXCEPT !.deleted = @ + 1] ELSE f
                ELSE IF result.Err # Nil
                     THEN [f EXCEPT !.retry = Append(@, result.Err.res)]
                     ELSE f
       IN frames' = [frames EXCEPT ![Len(frames)] = [g EXCEPT !.got = @ + 1]]
    /\ workerResults' = Tail(workerResults)
    /\ UNCHANGED <<call, loadVars, unitVars,
                   cfgVars, mainVars, exists, state, pc, exitCode, updVars, jobQueue,
                   returned, act,
                   orphans, histVars>>

\* one iteration of the receive loop of DestroyResources (lines 44-56)
DestroyResources_Receive ==
    /\ pc = "destroying"
    /\ Top.got < Len(Top.input)
    /\ workerResults # <<>>
    /\ LET result == Head(workerResults)
           f == Top
           g == IF result.resourceHasBeenDeleted
                THEN [f EXCEPT !.deleted = @ + 1]
                ELSE IF result.Err # Nil
                     THEN [f EXCEPT !.retry = Append(@, result.Err.res)]
                     ELSE f
       IN frames' = [frames EXCEPT ![Len(frames)] = [g EXCEPT !.got = @ + 1]]
    /\ workerResults' = Tail(workerResults)
    /\ UNCHANGED <<call, loadVars, unitVars,
                   cfgVars, mainVars, exists, state, pc, exitCode, updVars, jobQueue,
                   returned, act,
                   orphans, histVars>>

\* line 58 without its second conjunct
Retries_AnyFailure(f) == Len(f.retry) > 0

\* whether the run just tallied is followed by a nested run (line 58)
Retries(f) == Len(f.retry) > 0 /\ f.deleted > 0

\* line 67 without its second conjunct
RetriesExceeded_AnyFailure(f) == Len(f.retry) > 0

\* whether a returning invocation reports "retries exceeded" (line 67)
RetriesExceeded(f) == Len(f.retry) > 0 /\ f.deleted = 0

\* all results are in and line 58 holds: the nested DestroyResources starts
DestroyResources_Retry ==
    /\ pc = "destroying"
    /\ Top.got = Len(Top.input)
    /\ Retries(Top)
    /\ Launch(Top.retry)
    /\ UNCHANGED <<call, loadVars, unitVars,
                   cfgVars, mainVars, exists, state, exitCode, updVars, returned, act,
                   orphans,
                   refreshed, destroyCalls, reported>>

\* all results are in and line 58 does not hold
DestroyResources_NoRetry ==
    /\ pc = "destroying"
    /\ Top.got = Len(Top.input)
    /\ ~Retries(Top)
    /\ pc' = "returning"
    /\ UNCHANGED <<call, loadVars, unitVars,
                   cfgVars, mainVars, exists, state, exitCode, updVars, desVars, act,
                   orphans, histVars>>

\* the return of an invocation whose caller drops the nested count (line 64)
DestroyResources_Return_DropNested ==
    /\ pc = "returning"
    /\ LET f == Top
           n == Len(frames)
       IN /\ reported' = IF RetriesExceeded(f) THEN Append(reported, f.retry) ELSE reported
          /\ IF n > 1
             THEN /\ frames' = SubSeq(frames, 1, n - 1)
                  /\ UNCHANGED <<pc, returned, exitCode>>
             ELSE /\ frames' = <<>>
                  /\ returned' = f.deleted
                  /\ pc' = "done"
                  /\ exitCode' = IF entry = "main" THEN 0 ELSE exitCode
    /\ UNCHANGED <<call, loadVars, unitVars,
                   cfgVars, mainVars, exists, state, updVars, jobQueue, workerResults, act,
                   orphans, refreshed, destroyCalls, lastErr>>

\* mainExitCode returning 1 when DestroyResources has left a resource undeleted
DestroyResources_Return_FailUndeleted ==
    /\ pc = "returning"
    /\ LET f == Top
           n == Len(frames)
       IN /\ reported' = IF RetriesExceeded(f) THEN Append(reported, f.retry) ELSE reported
          /\ IF n > 1
             THEN /\ frames' = [SubSeq(frames, 1, n - 1) EXCEPT ![n - 1].deleted = @ + f.deleted]
                  /\ UNCHANGED <<pc, returned, exitCode>>
             ELSE /\ frames' = <<>>
                  /\ returned' = f.deleted
                  /\ pc' = "done"
                  /\ exitCode' = IF entry = "main"
                                 THEN (IF f.deleted < Len(f.input) THEN 1 ELSE 0)
                                 ELSE exitCode
    /\ UNCHANGED <<call, loadVars, unitVars,
                   cfgVars, mainVars, exists, state, updVars, jobQueue, workerResults, act,
                   orphans, refreshed, destroyCalls, lastErr>>

\* lines 67-76 of the innermost invocation: the report, and the return into
\* line 64 of its caller (or to the caller of the outermost invocation)
DestroyResources_Return ==
    /\ pc = "returning"
    /\ LET f == Top
           n == Len(frames)
       IN /\ reported' = IF RetriesExceeded(f) THEN Append(reported, f.retry) ELSE reported
          /\ IF n > 1
             THEN /\ frames' = [SubSeq(frames, 1, n - 1) EXCEPT ![n - 1].deleted = @ + f.deleted]
                  /\ UNCHANGED <<pc, returned, exitCode>>
             ELSE /\ frames' = <<>>
                  /\ returned' = f.deleted
                  /\ pc' = "done"
                  /\ exitCode' = IF entry = "main" THEN 0 ELSE exitCode
    /\ UNCHANGED <<call, loadVars, unitVars,
                   cfgVars, mainVars, exists, state, updVars, jobQueue, workerResults, act,
                   orphans, refreshed, destroyCalls, lastErr>>

\* ------------------------------------------------------------------ Spec
Next ==
    \/ Main_FlagConflict
    \/ Main_ParseDuration
    \/ Main_StatePath
    \/ Main_StateNew
    \/ Main_InitProviders
    \/ Main_Resources
    \/ UpdateResources_Start
    \/ updateWorker_Take
    \/ \E r \in Res : updateWorker_Update(r)
    \/ UpdateResources_Receive
    \/ Main_AllAlreadyDeleted
    \/ Main_DryRunEnd
    \/ Main_NotConfirmed
    \/ Main_DestroyResources
    \/ \E r \in Res : Lib_UpdateState(r)
    \/ Lib_DestroyResources
    \/ workerDestroy_Take
    \/ \E r \in Res : Provider_ApplyReturn(r)
    \/ \E r \in Res : Provider_RetryTimeout(r)
    \/ \E r \in Res : Orphan_Return(r)
    \/ DestroyResources_Receive
    \/ DestroyResources_Retry
    \/ DestroyResources_NoRetry
    \/ DestroyResources_Return

Spec == Init /\ [][Next]_vars

FairSpec == Spec /\ WF_vars(Next)

\* -------------------------------------------------- the adapter on its own
\* a call of ImportResource, ReadResource or DestroyResource enters resource.Retry
AdapterInit ==
    /\ entry = "lib" /\ parallel = 1 /\ dryRun = FALSE /\ force = FALSE /\ faults = TRUE
    /\ parent = NoDeps /\ ext = {} /\ exists = AllExist
    /\ state = [r \in Res |-> "nil"]
    /\ pc = "adapter" /\ exitCode = -1
    /\ jobQueueU = <<>> /\ resultsU = <<>> /\ updated = <<>> /\ gotU = 0
    /\ jobQueue = <<>> /\ workerResults = <<>> /\ frames = <<>> /\ returned = -1
    /\ act = [r \in Res |-> NoJob]
    /\ orphans = [r \in Res |-> 0]
    /\ refreshed = [r \in Res |-> "no"]
    /\ destroyCalls = [r \in Res |-> 0]
    /\ lastErr = [r \in Res |-> NoCall]
    /\ reported = <<>>
    /\ prelude = <<>> /\ fatal = "none" /\ answer = "none"
    /\ LoadIdle /\ UnitIdle
    /\ \E op \in Ops, t \in Timeouts,
          st \in CtyStates :
          /\ op # "DestroyResource" => st = CtyNull
          /\ call = [NoAdapterCall EXCEPT !.op = op, !.timeout = t, !.prior = st, !.st = "retry"]

\* resource.Retry calls the function, which sends the RPC
Adapter_Send ==
    /\ call.st = "retry"
    /\ call.rpcs < MaxAttempts
    /\ call' = [call EXCEPT !.st = "rpc", !.rpcs = @ + 1, !.sent = PriorState(call.op, call.prior)]
    /\ UNCHANGED <<pipelineVars, loadVars, unitVars>>

\* the response of the RPC retried whenever it has errors
Adapter_Answer_RetryAny(d) ==
    /\ call.st = "rpc"
    /\ call' = IF HasErrors(d)
               THEN [call EXCEPT !.st = "retry", !.response = d, !.answers = Append(@, d)]
               ELSE [call EXCEPT !.st = "returned", !.response = d, !.answers = Append(@, d),
                                 !.err = AdapterReturn(call.op, d, FALSE, call.timeout)]
    /\ UNCHANGED <<pipelineVars, loadVars, unitVars>>

\* the RPC answers with d: the function returns a RetryableError, or nil, which
\* ends resource.Retry and the call
Adapter_Answer(d) ==
    /\ call.st = "rpc"
    /\ call' = IF HasErrors(d) /\ shouldRetry(d)
               THEN [call EXCEPT !.st = "retry", !.response = d, !.answers = Append(@, d)]
               ELSE [call EXCEPT !.st = "returned", !.response = d, !.answers = Append(@, d),
                                 !.err = AdapterReturn(call.op, d, FALSE, call.timeout)]
    /\ UNCHANGED <<pipelineVars, loadVars, unitVars>>

\* the budget expires: resource.Retry returns an error; an RPC that is still
\* running stays in flight
Adapter_Expire ==
    /\ call.st \in {"retry", "rpc"}
    /\ call.rpcs >= 1
    /\ call' = [call EXCEPT !.st = "returned", !.expired = TRUE,
                            !.late = IF call.st = "rpc" THEN 1 ELSE 0,
                            !.err = AdapterReturn(call.op, call.response, TRUE, call.timeout)]
    /\ UNCHANGED <<pipelineVars, loadVars, unitVars>>

\* the budget expires while the RPC is running, and the RPC's answer d is
\* written to response while the call reads it
Adapter_ExpireRacing(d) ==
    /\ call.st = "rpc"
    /\ call' = [call EXCEPT !.st = "returned", !.expired = TRUE, !.response = d,
                            !.answers = Append(@, d),
                            !.err = AdapterReturn(call.op, d, TRUE, call.timeout)]
    /\ UNCHANGED <<pipelineVars, loadVars, unitVars>>

\* an RPC that has outlived its call is answered
Adapter_LateAnswer(d) ==
    /\ call.late > 0
    /\ call' = [call EXCEPT !.late = @ - 1, !.response = d]
    /\ UNCHANGED <<pipelineVars, loadVars, unitVars>>

AdapterNext ==
    \/ Adapter_Send
    \/ \E d \in AdapterDiags : Adapter_Answer(d)
    \/ Adapter_Expire
    \/ \E d \in AdapterDiags : Adapter_ExpireRacing(d)
    \/ \E d \in AdapterDiags : Adapter_LateAnswer(d)

AdapterSpec == AdapterInit /\ [][AdapterNext]_vars

\* =================================================================== LoadSpec
\* mainExitCode from state.New to its return, with the state file, the install
\* directory and the plugin subprocesses; UpdateResources and DestroyResources
\* are taken as one step each.

\* ------------------------------------------------------------------ state.New
ReadOnlyOps == {"Open", "Read", "Close"}

\* the file opened with os.Create, which truncates it
getStateFromPath_Truncating(f) ==
    [err |-> TRUE, ops |-> <<"Create", "Read", "Close">>,
     file |-> [present |-> TRUE, wellFormed |-> FALSE, addrs |-> <<>>, res |-> <<>>]]

\* getStateFromPath: os.Open, statefile.Read and the deferred f.Close
getStateFromPath(f) ==
    IF ~f.present
    THEN [err |-> TRUE, ops |-> <<"Open">>, file |-> f]
    ELSE [err |-> ~f.wellFormed, ops |-> <<"Open", "Read", "Close">>, file |-> f]

\* mainExitCode returns code after printing the error named what
RunEnds(code, what) == [run EXCEPT !.pc = "done", !.exit = code, !.fatal = what]

\* state.New(pathToState)
State_New ==
    /\ run.pc = "state"
    /\ LET r == getStateFromPath(stateFile)
       IN /\ stateFile' = r.file
          /\ fileOps' = fileOps \o r.ops
          /\ run' = IF r.err THEN RunEnds(1, "state") ELSE [run EXCEPT !.pc = "names"]
    /\ UNCHANGED <<pipelineVars, call, unitVars, installDir, downloads, names, initCalls, providers,
                   plugins, resources, stateUpdates, destroys>>

\* -------------------------------------------------------------- ProviderNames
RECURSIVE removeDuplicatesFrom(_, _, _)
\* the loop of removeDuplicates from the elements still to visit
removeDuplicatesFrom(elements, encountered, result) ==
    IF elements = <<>> THEN result
    ELSE IF Head(elements) \in encountered
         THEN removeDuplicatesFrom(Tail(elements), encountered, result)
         ELSE removeDuplicatesFrom(Tail(elements), encountered \cup {Head(elements)},
                                   Append(result, Head(elements)))

\* the last occurrence of each element kept instead of the first
removeDuplicates_KeepLast(elements) ==
    LET Rev(q) == [i \in 1..Len(q) |-> q[Len(q) + 1 - i]]
    IN Rev(removeDuplicatesFrom(Rev(elements), {}, <<>>))

removeDuplicates(elements) == removeDuplicatesFrom(elements, {}, <<>>)

\* every address of the state, duplicates included
ProviderNames_AllAddrs(f) == f.addrs

\* State.ProviderNames
ProviderNames(f) == removeDuplicates(f.addrs)

\* tfstate.ProviderNames(), the argument of InitProviders
State_ProviderNames ==
    /\ run.pc = "names"
    /\ names' = ProviderNames(stateFile)
    /\ run' = [run EXCEPT !.pc = "providers"]
    /\ UNCHANGED <<pipelineVars, call, unitVars,
                   stateFile, fileOps, installDir, downloads, initCalls,
                   providers, plugins, resources, stateUpdates, destroys>>

\* -------------------------------------------------------------------- Install
\* Install: what it returns, what it leaves in the directory and whether it
\* called providerInstaller.Get.  The loop over the plugins of that name runs
\* in no fixed order: it ends at the first version that does not parse or at
\* the binary of the requested version, whichever it meets first.  Without
\* either the binary is downloaded (Get) and the other versions are removed
\* (PurgeUnused); each of the two can fail.
InstallOutcomes(providerName, providerVersion, dir) ==
    LET same == {b \in dir : b.name = providerName}
        unparsable == {b \in same : b.version = "bad"}
        found == {b \in same : b.version = providerVersion}
        new == [name |-> providerName, version |-> providerVersion]
    IN {[err |-> TRUE, meta |-> NoMeta, downloaded |-> FALSE, dir |-> dir] : b \in unparsable}
       \cup {[err |-> FALSE, meta |-> b, downloaded |-> FALSE, dir |-> dir] : b \in found}
       \cup (IF unparsable = {} /\ found = {}
             THEN {[err |-> TRUE, meta |-> NoMeta, downloaded |-> TRUE, dir |-> dir],
                   [err |-> TRUE, meta |-> NoMeta, downloaded |-> TRUE, dir |-> dir \cup {new}],
                   [err |-> FALSE, meta |-> new, downloaded |-> TRUE,
                    dir |-> (dir \ same) \cup {new}]}
             ELSE {})

\* ----------------------------------------------------------------------- Init
\* Init: the step it ended at, whether a plugin subprocess was launched,
\* whether it returned a provider, and what Install did
InitOutcomes(providerName, dir) ==
    IF providerName \notin Supported
    THEN {[err |-> FALSE, step |-> "config", launched |-> FALSE, p |-> FALSE,
           downloaded |-> FALSE, dir |-> dir]}
    ELSE UNION {
           IF i.err
           THEN {[err |-> TRUE, step |-> "install", launched |-> FALSE, p |-> FALSE,
                  downloaded |-> i.downloaded, dir |-> i.dir]}
           ELSE {[err |-> TRUE, step |-> "launch", launched |-> FALSE, p |-> FALSE,
                  downloaded |-> i.downloaded, dir |-> i.dir],
                 [err |-> TRUE, step |-> "configure", launched |-> TRUE, p |-> FALSE,
                  downloaded |-> i.downloaded, dir |-> i.dir],
                 [err |-> FALSE, step |-> "done", launched |-> TRUE, p |-> TRUE,
                  downloaded |-> i.downloaded, dir |-> i.dir]}
           : i \in InstallOutcomes(providerName, PinnedVersion, dir)}

\* what one pass of the loop of InitProviders does with the outcome o of Init
InitStep(pName, o) ==
    /\ initCalls' = Append(initCalls, [name |-> pName, step |-> o.step])
    /\ installDir' = o.dir
    /\ downloads' = downloads + (IF o.downloaded THEN 1 ELSE 0)
    /\ plugins' = IF o.launched
                  THEN Append(plugins, [name |-> pName, released |-> FALSE])
                  ELSE plugins

\* the loop of InitProviders going on to the next name after an error of Init
InitProviders_Init_Continue ==
    /\ run.pc = "providers"
    /\ Len(initCalls) < Len(names)
    /\ LET pName == names[Len(initCalls) + 1]
       IN \E o \in InitOutcomes(pName, installDir) :
             /\ InitStep(pName, o)
             /\ providers' = IF o.p THEN [providers EXCEPT ![pName] = Len(plugins')]
                             ELSE providers
             /\ run' = run
    /\ UNCHANGED <<pipelineVars, call, unitVars, stateFile, fileOps, names, resources, stateUpdates,
                   destroys>>

\* InitProviders: one pass of its loop.  An error of Init ends InitProviders
\* with no map and mainExitCode with exit code 1.
InitProviders_Init ==
    /\ run.pc = "providers"
    /\ Len(initCalls) < Len(names)
    /\ LET pName == names[Len(initCalls) + 1]
       IN \E o \in InitOutcomes(pName, installDir) :
             /\ InitStep(pName, o)
             /\ providers' = IF o.err THEN NoProviders
                             ELSE IF o.p THEN [providers EXCEPT ![pName] = Len(plugins')]
                             ELSE providers
             /\ run' = IF o.err THEN RunEnds(1, "providers") ELSE run
    /\ UNCHANGED <<pipelineVars, call, unitVars, stateFile, fileOps, names, resources, stateUpdates,
                   destroys>>

\* ------------------------------------------------------------ State.Resources
RECURSIVE ResourcesFrom(_, _, _, _)
\* the loop of State.Resources from entry i on
ResourcesFrom(res, provs, i, acc) ==
    IF i > Len(res) THEN [err |-> FALSE, list |-> acc]
    ELSE IF res[i].shape = "noid" THEN [err |-> TRUE, list |-> <<>>]
    ELSE IF res[i].mode # "managed" THEN ResourcesFrom(res, provs, i + 1, acc)
    ELSE IF provs[res[i].typ] = 0 THEN ResourcesFrom(res, provs, i + 1, acc)
    ELSE IF res[i].shape = "nodecode" THEN [err |-> TRUE, list |-> <<>>]
    ELSE ResourcesFrom(res, provs, i + 1,
                       Append(acc, [entry |-> i, plugin |-> provs[res[i].typ]]))

\* State.Resources with the check of the mode left out
Resources_AnyMode(f, provs) ==
    LET managed == [i \in 1..Len(f.res) |-> [f.res[i] EXCEPT !.mode = "managed"]]
    IN ResourcesFrom(managed, provs, 1, <<>>)

Resources(f, provs) == ResourcesFrom(f.res, provs, 1, <<>>)

\* InitProviders has returned its map; tfstate.Resources(providers)
State_Resources ==
    /\ run.pc = "providers"
    /\ Len(initCalls) = Len(names)
    /\ LET r == Resources(stateFile, providers)
       IN /\ resources' = r.list
          /\ run' = IF r.err THEN RunEnds(1, "resources") ELSE [run EXCEPT !.pc = "update"]
    /\ UNCHANGED <<pipelineVars, call, unitVars, stateFile, fileOps, installDir, downloads, names,
                   initCalls, providers, plugins, stateUpdates, destroys>>

\* ------------------------------------------------- the rest of mainExitCode
\* resource.UpdateResources(resources, parallel): UpdateState is called for
\* every resource of the list; some of them are returned
Run_UpdateResources ==
    /\ run.pc = "update"
    /\ stateUpdates' = {resources[i].entry : i \in 1..Len(resources)}
    /\ \E u \in SUBSET {resources[i].entry : i \in 1..Len(resources)} :
          run' = [run EXCEPT !.pc = "decide", !.updated = u]
    /\ UNCHANGED <<pipelineVars, call, unitVars, stateFile, fileOps, installDir, downloads, names,
                   initCalls, providers, plugins, resources, destroys>>

\* the !force and !dryRun blocks of mainExitCode: DestroyResources is called
\* with the resources that UpdateResources returned
Run_Finish ==
    /\ run.pc = "decide"
    /\ \E a \in Answers :
          LET asked == ~(~force /\ run.updated = {}) /\ ~dryRun
              confirmed == asked /\ UserConfirmedDeletion(a, force)
          IN /\ destroys' = IF confirmed THEN run.updated ELSE destroys
             /\ run' = [run EXCEPT !.pc = "done", !.exit = 0,
                                   !.answer = IF asked /\ ~force THEN a ELSE @]
    /\ UNCHANGED <<pipelineVars, call, unitVars, stateFile, fileOps, installDir, downloads, names,
                   initCalls, providers, plugins, resources, stateUpdates>>

LoadInit ==
    /\ entry = "main" /\ parallel \in 1..MaxParallel
    /\ dryRun \in BOOLEAN /\ force \in BOOLEAN /\ ~(force /\ dryRun)
    /\ faults = FALSE /\ parent = NoDeps /\ ext = {} /\ exists = AllExist
    /\ state = [r \in Res |-> "nil"]
    /\ pc = "load" /\ exitCode = -1
    /\ jobQueueU = <<>> /\ resultsU = <<>> /\ updated = <<>> /\ gotU = 0
    /\ jobQueue = <<>> /\ workerResults = <<>> /\ frames = <<>> /\ returned = -1
    /\ act = [r \in Res |-> NoJob]
    /\ orphans = [r \in Res |-> 0]
    /\ refreshed = [r \in Res |-> "no"]
    /\ destroyCalls = [r \in Res |-> 0]
    /\ lastErr = [r \in Res |-> NoCall]
    /\ reported = <<>>
    /\ prelude = <<>> /\ fatal = "none" /\ answer = "none"
    /\ call = NoAdapterCall
    /\ stateFile \in StateFiles /\ fileOps = <<>>
    /\ installDir \in SUBSET Binaries /\ downloads = 0
    /\ run = [NoRun EXCEPT !.pc = "state"]
    /\ names = <<>> /\ initCalls = <<>>
    /\ providers = NoProviders /\ plugins = <<>>
    /\ resources = <<>>
    /\ stateUpdates = {} /\ destroys = {}
    /\ UnitIdle

LoadNext ==
    \/ State_New
    \/ State_ProviderNames
    \/ InitProviders_Init
    \/ State_Resources
    \/ Run_UpdateResources
    \/ Run_Finish

LoadSpec == LoadInit /\ [][LoadNext]_vars

\* ------------------------------------------------ one worker pool on its own
\* UpdateResources (update.go:22-57) and DestroyResources (destroy.go:22-56)
\* run their workers in the same way: two channels buffered for one element per
\* resource, `parallel` goroutines ranging over the job queue, the jobs sent,
\* the queue closed, and one result received per resource. Here one such run is
\* followed goroutine by goroutine, for every value the flag package accepts.
PoolKinds == {"update", "destroy"}

\* the values of -parallel looked at: flags.IntVar takes any integer
ParallelValues == -1..MaxParallel

\* the goroutines started by `for i := 1; i <= parallel; i++`
Started(par) == {i \in Workers : i <= par}

PoolInit ==
    /\ entry = "lib" /\ parallel \in ParallelValues
    /\ dryRun = FALSE /\ force = FALSE /\ faults = FALSE
    /\ parent = NoDeps /\ ext = {} /\ exists = AllExist
    /\ state = [r \in Res |-> "nil"]
    /\ pc = "pool" /\ exitCode = -1
    /\ jobQueueU = <<>> /\ resultsU = <<>> /\ updated = <<>> /\ gotU = 0
    /\ jobQueue = <<>> /\ workerResults = <<>> /\ frames = <<>> /\ returned = -1
    /\ act = [r \in Res |-> NoJob]
    /\ orphans = [r \in Res |-> 0]
    /\ refreshed = [r \in Res |-> "no"]
    /\ destroyCalls = [r \in Res |-> 0]
    /\ lastErr = [r \in Res |-> NoCall]
    /\ reported = <<>>
    /\ prelude = <<>> /\ fatal = "none" /\ answer = "none"
    /\ call = NoAdapterCall /\ LoadIdle /\ update = NoUpdate
    /\ \E k \in PoolKinds, n \in 0..NumRes :
          pool = [NoPool EXCEPT !.kind = k, !.pc = "start", !.n = n]

\* the channels are made and the workers are started
Pool_Go ==
    /\ pool.pc = "start"
    /\ pool' = [pool EXCEPT !.pc = "send",
                            !.w = [i \in Workers |->
                                     IF i \in Started(parallel)
                                     THEN [pc |-> "range", job |-> NoRes]
                                     ELSE NoWorker]]
    /\ UNCHANGED <<pipelineVars, call, loadVars, update>>

\* jobQueue <- r for the next resource; the buffer holds all of them
Pool_SendJob ==
    /\ pool.pc = "send"
    /\ pool.queued < pool.n
    /\ Len(pool.jobQueue) < pool.n
    /\ pool' = [pool EXCEPT !.jobQueue = Append(@, pool.queued + 1),
                            !.queued = @ + 1]
    /\ UNCHANGED <<pipelineVars, call, loadVars, update>>

\* the range over the resources ends without close(jobQueue)
Pool_Close_Forgotten ==
    /\ pool.pc = "send"
    /\ pool.queued = pool.n
    /\ pool' = [pool EXCEPT !.pc = "receive"]
    /\ UNCHANGED <<pipelineVars, call, loadVars, update>>

\* close(jobQueue)
Pool_Close ==
    /\ pool.pc = "send"
    /\ pool.queued = pool.n
    /\ pool' = [pool EXCEPT !.closed = TRUE, !.pc = "receive"]
    /\ UNCHANGED <<pipelineVars, call, loadVars, update>>

\* a worker's range reading the first job of the queue without taking it out
worker_Range_Peek(i) ==
    /\ pool.w[i].pc = "range"
    /\ pool.jobQueue # <<>>
    /\ LET r == Head(pool.jobQueue) IN
       pool' = [pool EXCEPT !.w[i] = [pc |-> "call", job |-> r],
                            !.takers[r] = @ \cup {i}]
    /\ UNCHANGED <<pipelineVars, call, loadVars, update>>

\* `for r := range resources` of worker i receives a job
worker_Range(i) ==
    /\ pool.w[i].pc = "range"
    /\ pool.jobQueue # <<>>
    /\ LET r == Head(pool.jobQueue) IN
       pool' = [pool EXCEPT !.jobQueue = Tail(@),
                            !.w[i] = [pc |-> "call", job |-> r],
                            !.takers[r] = @ \cup {i}]
    /\ UNCHANGED <<pipelineVars, call, loadVars, update>>

\* the range of worker i ends: the queue is closed and empty, the worker returns
worker_Exit(i) ==
    /\ pool.w[i].pc = "range"
    /\ pool.jobQueue = <<>> /\ pool.closed
    /\ pool' = [pool EXCEPT !.w[i] = [pc |-> "exited", job |-> NoRes]]
    /\ UNCHANGED <<pipelineVars, call, loadVars, update>>

\* r.UpdateState() or r.Destroy() of worker i returns; every branch that
\* follows sends exactly one result
worker_Call(i) ==
    /\ pool.w[i].pc = "call"
    /\ pool' = [pool EXCEPT !.w[i].pc = "send",
                            !.calls[pool.w[i].job] = @ + 1]
    /\ UNCHANGED <<pipelineVars, call, loadVars, update>>

\* `result <- ...` of worker i: possible while the buffer has room
worker_Send(i) ==
    /\ pool.w[i].pc = "send"
    /\ Len(pool.workerResults) < pool.n
    /\ pool' = [pool EXCEPT !.workerResults = Append(@, pool.w[i].job),
                            !.sent[pool.w[i].job] = @ + 1,
                            !.w[i] = [pc |-> "range", job |-> NoRes]]
    /\ UNCHANGED <<pipelineVars, call, loadVars, update>>

\* one iteration of the receive loop
Pool_Receive ==
    /\ pool.pc = "receive"
    /\ pool.got < pool.n
    /\ pool.workerResults # <<>>
    /\ pool' = [pool EXCEPT !.workerResults = Tail(@), !.got = @ + 1]
    /\ UNCHANGED <<pipelineVars, call, loadVars, update>>

\* the receive loop has had its n results: the run is over
Pool_Return ==
    /\ pool.pc = "receive"
    /\ pool.got = pool.n
    /\ pool' = [pool EXCEPT !.pc = "returned"]
    /\ UNCHANGED <<pipelineVars, call, loadVars, update>>

PoolNext ==
    \/ Pool_Go
    \/ Pool_SendJob
    \/ Pool_Close
    \/ \E i \in Workers : worker_Range(i)
    \/ \E i \in Workers : worker_Call(i)
    \/ \E i \in Workers : worker_Send(i)
    \/ \E i \in Workers : worker_Exit(i)
    \/ Pool_Receive
    \/ Pool_Return

PoolSpec == PoolInit /\ [][PoolNext]_vars

\* the Go scheduler runs every goroutine that can take a step
PoolFairSpec == PoolSpec /\ WF_vars(PoolNext)

\* ------------------------------------------- one call of UpdateState on its own
\* Resource.UpdateState (update.go:88-116) with importAndReadResource and
\* readResource, followed provider call by provider call.

\* r.terraformType, and the type of a resource that Import returns besides
OwnType == "aws_vpc"
ImportedTypes == {OwnType, "aws_route_table"}

\* what ReadResource gives for a state: an error, a state, or null (gone)
ReadResults == {"err", "known", "null"}

\* the resources ImportResource may return: each with its type, and with what
\* a ReadResource of its state will give
ImportedResources == [TypeName : ImportedTypes, read : ReadResults]

\* a call of the provider: the operation, the type and the state (or id) given
ProviderCall(op, typ, arg, idx) == [op |-> op, typ |-> typ, arg |-> arg, idx |-> idx]

\* r.state = &result
Adopt(from, idx, typ, val) == [from |-> from, idx |-> idx, typ |-> typ, val |-> val]

\* the test of line 89 taken as never true
HasPriorState_Never(u) == FALSE

\* r.state != nil (line 89)
HasPriorState(u) == u.hasState

UpdateInit ==
    /\ entry = "lib" /\ parallel = 1
    /\ dryRun = FALSE /\ force = FALSE /\ faults = TRUE
    /\ parent = NoDeps /\ ext = {} /\ exists = AllExist
    /\ state = [r \in Res |-> "nil"]
    /\ pc = "updatestate" /\ exitCode = -1
    /\ jobQueueU = <<>> /\ resultsU = <<>> /\ updated = <<>> /\ gotU = 0
    /\ jobQueue = <<>> /\ workerResults = <<>> /\ frames = <<>> /\ returned = -1
    /\ act = [r \in Res |-> NoJob]
    /\ orphans = [r \in Res |-> 0]
    /\ refreshed = [r \in Res |-> "no"]
    /\ destroyCalls = [r \in Res |-> 0]
    /\ lastErr = [r \in Res |-> NoCall]
    /\ reported = <<>>
    /\ prelude = <<>> /\ fatal = "none" /\ answer = "none"
    /\ call = NoAdapterCall /\ LoadIdle /\ pool = NoPool
    /\ \E h \in BOOLEAN :
          update = [NoUpdate EXCEPT !.pc = "start", !.hasState = h,
                                    !.adopted = IF h THEN Adopt("prior", 0, OwnType, "known")
                                                ELSE NoState]

\* lines 89-99: the resource has a state, which is read again
UpdateState_ReadState ==
    /\ update.pc = "start"
    /\ HasPriorState(update)
    /\ \E res \in ReadResults :
          update' = [update EXCEPT
             !.calls = Append(@, ProviderCall("ReadResource", OwnType, "prior", 0)),
             !.pc = "done",
             !.err = IF res = "err" THEN "failed to read current state" ELSE "none",
             !.adopted = IF res = "err" THEN @ ELSE Adopt("read-prior", 0, OwnType, res)]
    /\ UNCHANGED <<pipelineVars, call, loadVars, pool>>

\* lines 119-122: ImportResource fails, or returns a list of resources
importAndReadResource_Import ==
    /\ update.pc = "start"
    /\ ~HasPriorState(update)
    /\ \/ update' = [update EXCEPT
             !.calls = Append(@, ProviderCall("ImportResource", OwnType, "id", 0)),
             !.pc = "fallback"]
       \/ \E l \in SeqsUpTo(ImportedResources, MaxImported) :
             update' = [update EXCEPT
                !.calls = Append(@, ProviderCall("ImportResource", OwnType, "id", 0)),
                !.imported = l, !.i = 1, !.pc = "loop"]
    /\ UNCHANGED <<pipelineVars, call, loadVars, pool>>

\* lines 124-137: one iteration of the loop over the imported resources
importAndReadResource_Read ==
    /\ update.pc = "loop"
    /\ update.i <= Len(update.imported)
    /\ LET rImported == update.imported[update.i]
           called == Append(update.calls,
                            ProviderCall("ReadResource", rImported.TypeName, "imported", update.i))
       IN IF rImported.read = "err"
          THEN update' = [update EXCEPT !.calls = called, !.pc = "fallback"]
          ELSE IF rImported.TypeName = OwnType
          THEN update' = [update EXCEPT
                             !.calls = called, !.pc = "done",
                             !.adopted = Adopt("read-imported", update.i,
                                               rImported.TypeName, rImported.read)]
          ELSE update' = [update EXCEPT !.calls = called, !.i = @ + 1]
    /\ UNCHANGED <<pipelineVars, call, loadVars, pool>>

\* line 139: the loop has ended, "no resource found to be imported"
importAndReadResource_NoMatch ==
    /\ update.pc = "loop"
    /\ update.i > Len(update.imported)
    /\ update' = [update EXCEPT !.pc = "fallback"]
    /\ UNCHANGED <<pipelineVars, call, loadVars, pool>>

\* lines 102-111 and readResource: the schema is fetched and the state that
\* holds only the id is read
readResource ==
    /\ update.pc = "fallback"
    /\ \/ update' = [update EXCEPT
             !.calls = Append(@, ProviderCall("GetSchemaForResource", OwnType, "none", 0)),
             !.pc = "done", !.err = "no schema"]
       \/ \E res \in ReadResults :
             update' = [update EXCEPT
                !.calls = @ \o <<ProviderCall("GetSchemaForResource", OwnType, "none", 0),
                                 ProviderCall("ReadResource", OwnType, "id-only", 0)>>,
                !.pc = "done",
                !.err = IF res = "err" THEN "failed to read current state" ELSE "none",
                !.adopted = IF res = "err" THEN @ ELSE Adopt("read-id-only", 0, OwnType, res)]
    /\ UNCHANGED <<pipelineVars, call, loadVars, pool>>

UpdateNext ==
    \/ UpdateState_ReadState
    \/ importAndReadResource_Import
    \/ importAndReadResource_Read
    \/ importAndReadResource_NoMatch
    \/ readResource

UpdateSpec == UpdateInit /\ [][UpdateNext]_vars

TypeOK ==
    /\ pc \in {"start", "args", "state", "providers", "resources", "ready", "updating",
              "updated", "destroying", "returning", "done"}
    /\ exitCode \in {-1, 0, 1}
    /\ \A r \in Res : state[r] \in {"nil", "prior", "null", "known"}

\* ---------------------------------------------------------------- outcomes
\* how the Destroy call of r ended in the run it last took part in
OutcomeOf(err) ==
    IF err = NoCall THEN "none"
    ELSE IF err = Nil THEN "deleted"
    ELSE IF err.type = "RetryDestroyError" THEN "retry" ELSE "fail"

Outcome(r) == OutcomeOf(lastErr[r])

\* the input of the outermost DestroyResources
OuterInput == IF entry = "main" THEN updated ELSE SeqOfSet(Res)

NoDuplicates(s) == \A i, j \in 1..Len(s) : s[i] = s[j] => i = j

\* the step in which DestroyResources has all results of a run and decides
TallyStep ==
    /\ pc = "destroying"
    /\ Top.got = Len(Top.input)
    /\ pc' = "returning" \/ Len(frames') = Len(frames) + 1

\* the step in which the innermost invocation of DestroyResources returns
ReturnStep == pc = "returning" /\ Len(frames') = Len(frames) - 1

SucceededInRun == {r \in Range(Top.input) : Outcome(r) = "deleted"}
RetryableInRun == {r \in Range(Top.input) : Outcome(r) = "retry"}

\* C1: when all results of a run are in, a further run is launched if and only
\* if some destroy of the run succeeded and some failed with a retryable error,
\* and its input holds exactly the resources that failed retryably, each once.
C1_RetryDecision ==
    [][TallyStep =>
          /\ (Len(frames') = Len(frames) + 1)
                <=> (SucceededInRun # {} /\ RetryableInRun # {})
          /\ Len(frames') = Len(frames) + 1 =>
                /\ Range(frames'[Len(frames')].input) = RetryableInRun
                /\ NoDuplicates(frames'[Len(frames')].input)
                /\ jobQueue' = frames'[Len(frames')].input]_vars

\* a nested run has just been launched for a proper part of a run's input
C1_Witness ==
    /\ Len(frames) = 2 /\ pc = "destroying"
    /\ jobQueue = Top.input /\ Len(Top.input) >= 1
    /\ \E r \in Range(frames[1].input) : Outcome(r) = "fail"
    /\ \E r \in Range(frames[1].input) : Outcome(r) = "deleted"

\* C2: DestroyResources terminates for every input and every worker count of at
\* least 1: each nested run gets a strictly smaller input than the run that
\* launched it, and the recursion ends once a run leaves nothing to retry or
\* destroys nothing.
C2_Terminates ==
    /\ [](\A i \in 2..Len(frames) : Len(frames[i].input) < Len(frames[i - 1].input))
    /\ [][TallyStep /\ pc' = "returning" =>
             (RetryableInRun = {} \/ SucceededInRun = {})]_vars
    /\ (pc = "destroying") ~> (pc = "done" /\ returned >= 0)

\* the recursion is three runs deep, each on a smaller input, and has ended
C2_Witness ==
    /\ pc = "returning" /\ Len(frames) = 3
    /\ Len(frames[1].input) = 3 /\ Len(frames[2].input) = 2 /\ Len(frames[3].input) = 1

\* every destroy fails exactly while something that depends on the resource
\* still exists: the plugin adds no failure and every input resource has a state
DependencyFailuresOnly ==
    /\ ~faults
    /\ \A r \in Range(OuterInput) : state[r] # "nil"

\* whatever depends on an input resource is itself an input resource
DependentsInInput ==
    \A r \in Range(OuterInput) :
        /\ r \notin ext
        /\ \A d \in Res : parent[d] = r => d \in Range(OuterInput)

AllDestroyed ==
    /\ pc = "done"
    /\ returned = Len(OuterInput)
    /\ \A r \in Range(OuterInput) : ~exists[r]

\* C3 as stated: with acyclic dependencies as the only cause of failure,
\* DestroyResources destroys every input resource and returns the input length.
C3_Original ==
    (pc = "done" /\ returned >= 0 /\ DependencyFailuresOnly) => AllDestroyed

\* C3 (amended): with acyclic dependencies as the only cause of failure, and
\* every resource that depends on an input resource being an input resource
\* too, DestroyResources eventually destroys every input resource and returns
\* the input length, for every worker count and interleaving.
C3_DependentsDestroyed ==
    /\ []((pc = "done" /\ returned >= 0 /\ DependencyFailuresOnly /\ DependentsInInput)
             => AllDestroyed)
    /\ (pc = "destroying" /\ DependencyFailuresOnly /\ DependentsInInput) ~> AllDestroyed

\* a chain of three dependent resources, listed dependency first, was destroyed
\* in three runs
C3_Witness ==
    /\ AllDestroyed /\ DependencyFailuresOnly /\ DependentsInInput
    /\ returned = NumRes
    /\ parent[2] = 1 /\ parent[3] = 2
    /\ destroyCalls[1] = 3

\* the outcome classes of a finished pipeline
DeletedSet == {r \in Res : Outcome(r) = "deleted"}
GoneRemoteSet == {r \in Res : refreshed[r] = "gone"}
PermanentFailureSet == {r \in Res : Outcome(r) = "fail"}
UnresolvedRetryableSet == {r \in Res : \E i \in 1..Len(reported) : r \in Range(reported[i])}
\* resources that UpdateResources dropped because their refresh returned an error
RefreshFailedSet == {r \in Res : refreshed[r] = "error"} \ Range(OuterInput)

PipelineFinished == pc = "done" /\ returned >= 0

InExactlyOne(r, classes) == Cardinality({i \in 1..Len(classes) : r \in classes[i]}) = 1

\* C4 as stated: after refresh and destroy every resource is in exactly one of
\* deleted, gone remotely, permanently failed, unresolved retryable, and the
\* four sizes add up to the number of resources.
C4_Original ==
    PipelineFinished =>
        /\ returned = Cardinality(DeletedSet)
        /\ \A r \in Res : InExactlyOne(r, <<DeletedSet, GoneRemoteSet, PermanentFailureSet,
                                            UnresolvedRetryableSet>>)
        /\ returned + Cardinality(GoneRemoteSet) + Cardinality(PermanentFailureSet)
              + Cardinality(UnresolvedRetryableSet) = NumRes

\* C4 (amended): after refresh and destroy every resource is in exactly one of
\* deleted, gone remotely, refresh failed, permanently failed, unresolved
\* retryable, and the five sizes add up to the number of resources.
C4_OutcomePartition ==
    PipelineFinished =>
        /\ returned = Cardinality(DeletedSet)
        /\ \A r \in Res : InExactlyOne(r, <<DeletedSet, GoneRemoteSet, RefreshFailedSet,
                                            PermanentFailureSet, UnresolvedRetryableSet>>)
        /\ returned + Cardinality(GoneRemoteSet) + Cardinality(RefreshFailedSet)
              + Cardinality(PermanentFailureSet) + Cardinality(UnresolvedRetryableSet) = NumRes

\* a finished pipeline with a resource gone remotely, one whose refresh failed
\* and one left unresolved after a retry run
C4_Witness ==
    /\ PipelineFinished /\ entry = "main"
    /\ GoneRemoteSet # {} /\ RefreshFailedSet # {} /\ UnresolvedRetryableSet # {}

\* a finished use of the package API with a permanent failure beside a deletion
C4_WitnessPermanent ==
    /\ PipelineFinished
    /\ PermanentFailureSet # {} /\ DeletedSet # {}

\* C5: the number DestroyResources returns is the number of input resources
\* whose Destroy returned nil, over the first run and all nested runs; it is 0
\* for an empty input and never more than the input length.
C5_ReturnedCount ==
    returned >= 0 =>
        /\ returned = Cardinality(DeletedSet)
        /\ DeletedSet \subseteq Range(OuterInput)
        /\ returned <= Len(OuterInput)
        /\ OuterInput = <<>> => returned = 0

\* DestroyResources has returned a count made up in a first and a nested run
C5_Witness ==
    /\ pc = "done" /\ returned = NumRes
    /\ \E r \in Res : destroyCalls[r] = 2 /\ Outcome(r) = "deleted"
    /\ \E r \in Res : destroyCalls[r] = 1 /\ Outcome(r) = "deleted"

\* DestroyResources has returned 0 for an empty input
C5_WitnessEmpty == pc = "done" /\ returned = 0 /\ OuterInput = <<>> /\ exitCode = 0

\* C6: a resource whose Destroy returned an error other than a retryable
\* destroy error is in no later run: its Destroy was called once, and neither
\* the call's result nor the number of calls changes afterwards.
C6_PermanentNotRetried ==
    /\ [](\A r \in Res : Outcome(r) = "fail" =>
              /\ destroyCalls[r] = 1
              /\ \A i \in 1..Len(frames) :
                    /\ r \notin Range(frames[i].retry)
                    /\ i > 1 => r \notin Range(frames[i].input))
    /\ [][\A r \in Res : Outcome(r) = "fail" =>
              /\ lastErr'[r] = lastErr[r]
              /\ destroyCalls'[r] = destroyCalls[r]]_vars

\* a nested run is under way although a resource of the first run has failed
\* with a non-retryable error
C6_Witness ==
    /\ Len(frames) = 2 /\ pc = "destroying"
    /\ \E r \in Range(frames[1].input) : Outcome(r) = "fail" /\ destroyCalls[r] = 1
    /\ \E r \in Range(frames[1].input) : Outcome(r) = "deleted"
    /\ \E r \in Range(frames[2].input) : destroyCalls[r] = 2

C8_RetriesExceeded ==
    /\ [][(TallyStep /\ SucceededInRun = {} /\ RetryableInRun # {}) =>
              pc' = "returning" /\ frames' = frames]_vars
    /\ [][ReturnStep =>
              IF SucceededInRun = {} /\ RetryableInRun # {}
              THEN /\ Len(reported') = Len(reported) + 1
                   /\ Range(reported'[Len(reported')]) = RetryableInRun
                   /\ NoDuplicates(reported'[Len(reported')])
              ELSE reported' = reported]_vars
    /\ [][~ReturnStep => reported' = reported]_vars

\* a nested run destroyed nothing and its retryable failure has been reported,
\* after a first run that had destroyed something
C8_Witness ==
    /\ pc = "done" /\ returned >= 1
    /\ Len(reported) = 1 /\ Len(reported[1]) >= 1
    /\ \A r \in Range(reported[1]) : Outcome(r) = "retry" /\ destroyCalls[r] = 2

C10_GoneNeverDestroyed ==
    \A r \in Res : refreshed[r] = "gone" =>
        /\ destroyCalls[r] = 0
        /\ lastErr[r] = NoCall
        /\ act[r].pc # "rpc" /\ orphans[r] = 0
        /\ r \notin Range(updated) \cup Range(jobQueue)
        /\ \A i \in 1..Len(frames) : r \notin Range(frames[i].input)

\* the pipeline has destroyed a resource and left alone one that was gone
C10_Witness ==
    /\ pc = "done" /\ returned >= 1
    /\ \E r \in Res : refreshed[r] = "gone" /\ state[r] = "null"

\* the ApplyResourceChange RPCs in flight for resource r: the one a worker's
\* DestroyResource waits for, and those whose DestroyResource has timed out
RPCsInFlight(r) == (IF act[r].pc = "rpc" THEN 1 ELSE 0) + orphans[r]

\* C11 as stated: at most one destroy call is in flight for a resource at any
\* time, over all workers and nested runs, also when a nested run retries a
\* resource whose previous attempt returned because its budget had expired.
C11_Original == \A r \in Res : RPCsInFlight(r) <= 1

\* a nested run has sent the RPC for a resource whose timed-out RPC of the
\* first run has not been answered
C11_Witness ==
    /\ Len(frames) = 2
    /\ \E r \in Range(frames[2].input) :
          /\ act[r].pc = "rpc" /\ orphans[r] = 1
          /\ destroyCalls[r] = 2

\* no Destroy has been called and no destroy RPC has been sent
NothingDestroyed ==
    /\ \A r \in Res : destroyCalls[r] = 0 /\ RPCsInFlight(r) = 0 /\ lastErr[r] = NoCall
    /\ frames = <<>> /\ returned = -1

\* every resource of the state file has been refreshed
AllRefreshed == gotU = NumRes /\ \A r \in Res : refreshed[r] # "no"

Loaded == <<"state", "providers", "resources">>

\* C12: with -dry-run no Destroy is called and no destroy RPC is sent, whatever
\* exists remotely, and the program ends after the refresh of every resource.
C12_DryRunNoDestroy ==
    (entry = "main" /\ dryRun) =>
        /\ NothingDestroyed
        /\ (pc = "done" /\ fatal = "none") => (exitCode = 0 /\ AllRefreshed)

\* a dry run has ended with resources that would be deleted
C12_Witness ==
    /\ entry = "main" /\ dryRun /\ ~force
    /\ pc = "done" /\ exitCode = 0
    /\ Len(updated) >= 2 /\ AllRefreshed

CompletedBefore(what) ==
    CASE what = "flags" -> <<>>
      [] what = "timeout" -> <<>>
      [] what = "args" -> <<>>
      [] what = "state" -> <<>>
      [] what = "providers" -> <<"state">>
      [] what = "resources" -> <<"state", "providers">>

\* C15: every fatal error (timeout flag, missing state path, state file,
\* provider initialisation, resource enumeration) ends the program with exit
\* code 1, and no Destroy has been called.
C15_FatalErrors ==
    fatal # "none" =>
        /\ pc = "done" /\ exitCode = 1
        /\ prelude = CompletedBefore(fatal)
        /\ NothingDestroyed
        /\ \A r \in Res : refreshed[r] = "no"

\* the enumeration of the resources has failed after the providers' start
C15_Witness == fatal = "resources" /\ exitCode = 1 /\ prelude = <<"state", "providers">>

UpdateReturned ==
    entry = "main" /\ (pc \in {"updated", "destroying", "returning"} \/ (pc = "done" /\ gotU > 0))

\* C17: UpdateResources returns exactly the resources whose UpdateState gave no
\* error and a state that is not null, each once, after the refresh of every
\* input resource.
C17_UpdatedExactly ==
    /\ Range(updated) \subseteq {r \in Res : refreshed[r] = "ok"}
    /\ NoDuplicates(updated)
    /\ UpdateReturned =>
          /\ Range(updated) = {r \in Res : refreshed[r] = "ok"}
          /\ AllRefreshed

\* UpdateResources has returned one resource of three: the refresh of another
\* failed, a third was gone
C17_Witness ==
    /\ pc = "updated" /\ Len(updated) = 1
    /\ \E r \in Res : refreshed[r] = "error"
    /\ \E r \in Res : refreshed[r] = "gone"

\* whether a diagnostic's message contains a code of one of the three tables
Classified(d) == d \cap (retryableCodes \cup throttleCodes \cup credsExpiredCodes) # {}

\* C18: an adapter call sends a further RPC only after a diagnostic whose
\* message contains a retryable, throttling or credentials-expired code; a
\* diagnostic with none of them is the last answer of the call, which returns
\* it as its error without another RPC.
C18_RetryOnlyClassified ==
    /\ [][(call'.rpcs > call.rpcs /\ call.rpcs >= 1) =>
              /\ call.response = call.answers[Len(call.answers)]
              /\ HasErrors(call.response) /\ Classified(call.response)]_vars
    /\ [](\A i \in 1..Len(call.answers) :
              (HasErrors(call.answers[i]) /\ ~Classified(call.answers[i])) =>
                  /\ i = Len(call.answers) /\ call.rpcs = i
                  /\ call.st = "returned" /\ call.late = 0
                  /\ call.err = DiagError(call.answers[i]))

\* a call has repeated its RPC after a throttling diagnostic and has returned
\* the unclassified diagnostic of the second RPC
C18_Witness ==
    /\ call.st = "returned" /\ call.rpcs = 2
    /\ call.answers = <<{"Throttling"}, {"SomeError"}>>
    /\ call.err = DiagError({"SomeError"})

\* C19 as stated: a call that has received only retryable diagnostics when its
\* budget expires returns a timed-out error naming its operation and the
\* budget that applied.
C19_Original ==
    (/\ call.st = "returned" /\ call.expired
     /\ call.answers # <<>>
     /\ \A i \in 1..Len(call.answers) : Classified(call.answers[i])) =>
        call.err = TimedOutError(call.op, RetryBudget(call.op, call.timeout))

\* the budget of a DestroyResource has expired between two RPCs, after
\* throttling diagnostics only, and the call has returned the diagnostic
C19_Witness ==
    /\ call.op = "DestroyResource" /\ call.st = "returned" /\ call.expired /\ call.late = 0
    /\ Len(call.answers) = call.rpcs /\ call.rpcs >= 2
    /\ \A i \in 1..Len(call.answers) : call.answers[i] = {"Throttling"}
    /\ call.err = DiagError({"Throttling"})

\* C20: enableForceDestroyAttributes is idempotent: on every state, and on the
\* state that DestroyResource sends as PriorState.
C20_CoercionIdempotent ==
    /\ \A st \in CtyStates :
          enableForceDestroyAttributes(enableForceDestroyAttributes(st))
              = enableForceDestroyAttributes(st)
    /\ (call.op = "DestroyResource" /\ call.rpcs >= 1) =>
          /\ call.sent = enableForceDestroyAttributes(call.prior)
          /\ enableForceDestroyAttributes(call.sent) = call.sent

\* DestroyResource has sent a state in which one force attribute was set to
\* true and the other, not a bool, was left out
C20_Witness ==
    /\ call.op = "DestroyResource" /\ call.rpcs >= 1
    /\ call.prior.kind = "object"
    /\ call.prior.attrs["force_destroy"] = "false"
    /\ call.prior.attrs["force_detach_policies"] = "str"
    /\ call.sent.attrs["force_destroy"] = "true"
    /\ call.sent.attrs["force_detach_policies"] = "absent"
    /\ call.sent.attrs["id"] = call.prior.attrs["id"]

(***************************************************************************)
(* C21 .. C30                                                              *)
(***************************************************************************)

\* the attribute names of a state value (none for null and for a value
\* that is not an object)
AttrNames(st) == {k \in Attrs : st.attrs[k] # "absent"}

\* C21: coercion of a non-null state keeps the attribute names, sets the
\* bool-typed force_destroy and force_detach_policies to true and leaves every
\* other attribute as it was (as stated)
C21_Original ==
    (call.op = "DestroyResource" /\ call.rpcs >= 1 /\ call.prior.kind # "null") =>
        /\ AttrNames(call.sent) = AttrNames(call.prior)
        /\ \A k \in Attrs :
              call.sent.attrs[k] = IF k \in ForceAttrs /\ IsBool(call.prior.attrs[k])
                                   THEN "true"
                                   ELSE call.prior.attrs[k]

\* DestroyResource has sent a state from which force_destroy, a string in the
\* state it was given, is missing
C21_Witness ==
    /\ call.op = "DestroyResource" /\ call.rpcs >= 1
    /\ call.prior.kind = "object"
    /\ call.prior.attrs["force_destroy"] = "str"
    /\ call.prior.attrs["force_detach_policies"] = "absent"
    /\ call.prior.attrs["id"] = "str"
    /\ AttrNames(call.sent) = {"id"}

\* the position at which k is first seen in q
FirstIndex(q, k) == CHOOSE i \in 1..Len(q) : q[i] = k /\ \A j \in 1..(i - 1) : q[j] # k

\* the provider configurations recorded for the resources of the state file
RecordedKeys == {stateFile.res[i].prov : i \in 1..Len(stateFile.res)}

\* C22: ProviderNames returns every provider key of the state, each once, in
\* the order in which the keys are first seen in the state's provider addresses.
C22_ProviderNamesDeduplicated ==
    (run.pc \notin {"none", "state", "names"} /\ run.fatal # "state") =>
        /\ Range(names) = RecordedKeys
        /\ Range(names) = Range(stateFile.addrs)
        /\ NoDuplicates(names)
        /\ \A i, j \in 1..Len(names) :
              i < j => FirstIndex(stateFile.addrs, names[i]) < FirstIndex(stateFile.addrs, names[j])

\* a key seen first, and again after another key, is returned once and first
C22_Witness ==
    /\ stateFile.addrs = <<"google", "aws", "google">>
    /\ names = <<"google", "aws">>

\* the data sources of the state file
DataSources == {i \in 1..Len(stateFile.res) : stateFile.res[i].mode = "data"}

\* the entries of the state file that State.Resources returned
Returned == {resources[i].entry : i \in 1..Len(resources)}

\* C23: no data source is in the list that State.Resources returns, and
\* UpdateState and Destroy are never called for one.
C23_NoDataSource ==
    /\ Returned \cap DataSources = {}
    /\ stateUpdates \cap DataSources = {}
    /\ destroys \cap DataSources = {}

\* a run has destroyed the managed resource of a supported provider and has
\* left out the data source of the same provider
C23_Witness ==
    /\ run.pc = "done" /\ run.fatal = "none"
    /\ Len(stateFile.res) = 2
    /\ stateFile.res[1] = [mode |-> "data", typ |-> "aws", prov |-> "aws", shape |-> "ok"]
    /\ stateFile.res[2] = [mode |-> "managed", typ |-> "aws", prov |-> "aws", shape |-> "ok"]
    /\ providers["aws"] = 1
    /\ stateUpdates = {2} /\ destroys = {2}

\* the resources that the state file records for provider configuration k
ResourcesOfProvider(k) == {i \in 1..Len(stateFile.res) : stateFile.res[i].prov = k}

\* State.Resources has returned a list
ResourcesReturned == run.pc \in {"update", "decide"} \/ (run.pc = "done" /\ run.fatal = "none")

\* C24 (as stated): a provider name without a built-in configuration has no
\* entry in the providers map and no plugin, none of its resources is
\* refreshed or destroyed, and the managed resources of the supported
\* providers are all returned by State.Resources.
C24_Original ==
    /\ \A k \in Range(names) \ Supported :
          /\ providers[k] = 0
          /\ \A i \in 1..Len(plugins) : plugins[i].name # k
          /\ \A i \in 1..Len(initCalls) : initCalls[i].name = k => initCalls[i].step = "config"
          /\ ResourcesOfProvider(k) \cap (Returned \cup stateUpdates \cup destroys) = {}
    /\ ResourcesReturned =>
          \A k \in Range(names) \cap Supported :
             {i \in ResourcesOfProvider(k) : stateFile.res[i].mode = "managed"} \subseteq Returned

\* the resource recorded for the aliased configuration aws.west, which has no
\* built-in configuration, has been destroyed through the plugin of aws
C24_Witness ==
    /\ run.pc = "done" /\ run.fatal = "none"
    /\ names = <<"aws", "aws.west">>
    /\ providers["aws.west"] = 0 /\ providers["aws"] = 1
    /\ \E i \in ResourcesOfProvider("aws.west") : i \in stateUpdates /\ i \in destroys

\* the plugin subprocesses launched for provider name k
PluginsOf(k) == {i \in 1..Len(plugins) : plugins[i].name = k}

\* InitProviders has returned its map
InitProvidersReturned ==
    run.pc \in {"update", "decide"} \/ (run.pc = "done" /\ run.fatal \in {"none", "resources"})

\* C25: at most one plugin is ever launched for a provider key, and none for
\* a key that is not supported or not in the state; when InitProviders has
\* returned, every supported key of the state has exactly one, which is the one
\* in the map and the one of every resource of that provider.
C25_OneAdapterPerKey ==
    /\ \A k \in ProviderKeys :
          /\ Cardinality(PluginsOf(k)) <= 1
          /\ k \notin Supported \cap Range(stateFile.addrs) => PluginsOf(k) = {}
          /\ InitProvidersReturned =>
                /\ k \in Supported \cap Range(stateFile.addrs) => PluginsOf(k) = {providers[k]}
                /\ providers[k] # 0 => PluginsOf(k) = {providers[k]}
    /\ \A i \in 1..Len(resources) :
          PluginsOf(stateFile.res[resources[i].entry].typ) = {resources[i].plugin}

\* two resources and two workers, one plugin
C25_Witness ==
    /\ run.pc = "done" /\ run.fatal = "none" /\ parallel = 2
    /\ Len(stateFile.addrs) = 3 /\ Len(names) = 1
    /\ Len(resources) = 2 /\ destroys = {1, 2}
    /\ Len(plugins) = 1
    /\ resources[1].plugin = 1 /\ resources[2].plugin = 1

\* the calls of Init that ended with an error
FailedInits == {i \in 1..Len(initCalls) : initCalls[i].step \in {"install", "launch", "configure"}}

\* C26: an error of Install, Launch or Configure is the last thing that
\* InitProviders does: the program has ended with exit code 1, there is no
\* providers map, Init was called once for each name up to the failing one and
\* for no later one, and nothing was enumerated, refreshed or destroyed.
C26_InitFailureFatal ==
    /\ \A i \in 1..Len(initCalls) : initCalls[i].name = names[i]
    /\ Len(initCalls) <= Len(names)
    /\ downloads <= Cardinality({i \in 1..Len(initCalls) : initCalls[i].name \in Supported})
    /\ FailedInits # {} =>
          /\ FailedInits = {Len(initCalls)}
          /\ run.pc = "done" /\ run.exit = 1 /\ run.fatal = "providers"
          /\ providers = NoProviders
          /\ resources = <<>> /\ stateUpdates = {} /\ destroys = {}
    /\ run.fatal = "providers" => FailedInits # {}

\* Configure has failed for the first of two provider names
C26_Witness ==
    /\ run.pc = "done" /\ run.exit = 1 /\ run.fatal = "providers"
    /\ Len(names) = 2 /\ Len(initCalls) = 1
    /\ initCalls[1] = [name |-> "aws", step |-> "configure"]
    /\ Len(plugins) = 1 /\ downloads = 1

\* C27 (as stated): when the program has ended, every plugin subprocess that
\* it launched has been released.
C27_Original ==
    run.pc = "done" => \A i \in 1..Len(plugins) : plugins[i].released

\* the program has ended on the error of Configure and has left the plugin
\* that it launched
C27_Witness ==
    /\ run.pc = "done" /\ run.fatal = "providers"
    /\ Len(plugins) = 1 /\ ~plugins[1].released
    /\ initCalls[Len(initCalls)].step = "configure"

\* the binary of the pinned version of the supported provider
Pinned == [name |-> "aws", version |-> PinnedVersion]

\* this step is a call of Init for a supported provider
InitOfSupported ==
    /\ Len(initCalls') = Len(initCalls) + 1
    /\ initCalls'[Len(initCalls')].name \in Supported

\* C28 (as stated): Install with the binary of the requested version in the
\* directory returns it, downloads nothing and leaves the directory as it is.
C28_Original ==
    [][(InitOfSupported /\ Pinned \in installDir) =>
          /\ initCalls'[Len(initCalls')].step # "install"
          /\ downloads' = downloads
          /\ installDir' = installDir]_vars

\* Install has failed on a version that does not parse although the
\* requested binary is in the directory
C28_Witness ==
    /\ Pinned \in installDir
    /\ [name |-> "aws", version |-> "bad"] \in installDir
    /\ run.fatal = "providers" /\ downloads = 0
    /\ initCalls[Len(initCalls)] = [name |-> "aws", step |-> "install"]

\* C29: no step of a run changes the state file, and the only operations on
\* it are opening it for reading, reading it and closing it.
C29_StateFileUntouched ==
    [][/\ stateFile' = stateFile
       /\ Range(fileOps') \subseteq ReadOnlyOps]_vars

\* a forced run has destroyed a resource and has only read the state file
C29_Witness ==
    /\ run.pc = "done" /\ force /\ destroys # {}
    /\ fileOps = <<"Open", "Read", "Close">>
    /\ stateFile.present /\ stateFile.wellFormed

\* C30: without -force, when UpdateResources returned no resource, the program
\* ends with exit code 0 in its next step, on the "all resources have already
\* been deleted" branch: no answer is read, DestroyResources is not called and
\* nothing is destroyed.
C30_AllAlreadyDeleted ==
    [][(entry = "main" /\ pc = "updated" /\ ~force /\ Len(updated) = 0) =>
          /\ pc' = "done" /\ exitCode' = 0 /\ fatal' = "none"
          /\ answer' = "none"
          /\ frames' = <<>> /\ jobQueue' = <<>> /\ returned' = -1
          /\ destroyCalls' = destroyCalls /\ exists' = exists]_vars

\* the program has ended without a question after a refresh that found every
\* resource gone or failed on it
C30_Witness ==
    /\ entry = "main" /\ ~force /\ ~dryRun
    /\ pc = "done" /\ exitCode = 0 /\ fatal = "none"
    /\ gotU = NumRes /\ Len(updated) = 0
    /\ \E r \in Res : refreshed[r] = "gone"
    /\ answer = "none" /\ NothingDestroyed

\* ------------------------------------------------------------- C31 .. C39
\* the calls of UpdateState made for r so far: UpdateResources queues every
\* resource once and only updateWorker_Update records a refresh
RefreshCalls(r) == IF refreshed[r] = "no" THEN 0 ELSE 1

\* C31 as stated: every destroy attempt of a resource, an attempt of a retry
\* run included, is preceded by a refresh of its own, so a resource has been
\* refreshed at least as often as Destroy has been called for it.
C31_Original ==
    entry = "main" => \A r \in Res : destroyCalls[r] <= RefreshCalls(r)

\* C31 (amended): the program refreshes every resource once, in the refresh
\* phase and before the first Destroy call of any resource; every Destroy call,
\* the calls of retry runs included, is made in the destroy phase for a resource
\* whose one refresh succeeded, and no Destroy call refreshes or changes a state.
C31_RefreshedOnceBeforeDestroy ==
    /\ [](entry = "main" =>
            \A r \in Res : destroyCalls[r] > 0 =>
                /\ refreshed[r] = "ok" /\ r \in Range(updated)
                /\ gotU = NumRes /\ \A q \in Res : refreshed[q] # "no")
    /\ [][entry = "main" =>
            /\ \A r \in Res : destroyCalls'[r] # destroyCalls[r] =>
                  /\ pc = "destroying" /\ destroyCalls'[r] = destroyCalls[r] + 1
                  /\ refreshed' = refreshed /\ state' = state
            /\ \A r \in Res : refreshed[r] # "no" => refreshed'[r] = refreshed[r]
            /\ \A r \in Res : refreshed'[r] # refreshed[r] => pc = "updating"]_vars

\* a retry run has called Destroy a second time for a resource that was
\* refreshed once
C31_Witness ==
    /\ entry = "main" /\ Len(frames) = 2
    /\ \E r \in Range(frames[2].input) :
          destroyCalls[r] = 2 /\ refreshed[r] = "ok" /\ RefreshCalls(r) = 1

\* the Destroy call of r in the run being tallied ended with the timed-out error
TimedOutInRun(r) ==
    /\ r \in Range(Top.input)
    /\ lastErr[r].msg = TimedOutMsg

\* C32: a Destroy that ended with the timed-out error counts as a retryable
\* failure of its run: the resource is in the run's retry list, and when the
\* run deleted some resource the next run is launched with it in its input.
C32_TimeoutRequeued ==
    [][TallyStep =>
         \A r \in Res : TimedOutInRun(r) =>
            /\ r \in Range(Top.retry)
            /\ SucceededInRun # {} =>
                  /\ Len(frames') = Len(frames) + 1
                  /\ r \in Range(frames'[Len(frames')].input)
                  /\ r \in Range(jobQueue')]_vars

\* a retry run has been launched with a resource whose one Destroy call timed
\* out in the first run (its RPC is still unanswered)
C32_Witness ==
    /\ Len(frames) = 2 /\ jobQueue = Top.input /\ Top.got = 0
    /\ frames[1].deleted > 0
    /\ \E r \in Range(Top.input) :
          /\ r \in Range(frames[1].retry)
          /\ destroyCalls[r] = 1 /\ orphans[r] = 1

\* C33 as stated: the destroy calls in flight, those of earlier runs whose
\* DestroyResource has returned on a timeout included, never exceed -parallel.
C33_Original == Sum([r \in Res |-> RPCsInFlight(r)], Res) <= parallel

\* more destroy RPCs are in flight than -parallel allows: a worker has sent the
\* next one while the RPC of a timed-out call has not been answered
C33_Witness ==
    /\ pc = "destroying"
    /\ Sum([r \in Res |-> RPCsInFlight(r)], Res) = parallel + 1
    /\ Cardinality(InWork) = parallel
    /\ \E r \in Res : orphans[r] = 1

\* the resources given to the pool
PoolInput == 1..pool.n

\* C34: in a run with at least one worker each input resource is received from
\* the job queue by exactly one worker, UpdateState or Destroy is called for it
\* exactly once and exactly one result is sent for it: never more than once
\* while the run lasts, and once each when the run has returned.
C34_ExactlyOnce ==
    parallel >= 1 =>
       /\ \A r \in Res :
             /\ Cardinality(pool.takers[r]) <= 1
             /\ pool.calls[r] <= 1 /\ pool.sent[r] <= 1
             /\ pool.sent[r] <= pool.calls[r]
             /\ r \notin PoolInput => pool.takers[r] = {} /\ pool.calls[r] = 0
       /\ pool.pc = "returned" =>
             \A r \in PoolInput :
                Cardinality(pool.takers[r]) = 1 /\ pool.calls[r] = 1 /\ pool.sent[r] = 1

\* a run of two workers over three resources has returned, both workers having
\* received jobs
C34_Witness ==
    /\ pool.pc = "returned" /\ parallel = 2 /\ pool.n = NumRes
    /\ \A r \in PoolInput : pool.calls[r] = 1 /\ pool.sent[r] = 1
    /\ \E r, q \in PoolInput : pool.takers[r] = {1} /\ pool.takers[q] = {2}

\* C35: when all results of a run are in, its tally is a function of the
\* outcomes of the run's Destroy calls alone: the deleted count is the number of
\* successes and the retry list holds exactly the retryable failures, once
\* each, whatever the order of arrival; and an invocation that returns adds its
\* count to that of its caller, the outermost one returning its count.
C35_TallyFromOutcomes ==
    /\ [][TallyStep =>
            /\ Top.deleted = Cardinality(SucceededInRun)
            /\ Range(Top.retry) = RetryableInRun
            /\ Len(Top.retry) = Cardinality(RetryableInRun)
            /\ (Len(frames') = Len(frames) + 1) =
                  (SucceededInRun # {} /\ RetryableInRun # {})]_vars
    /\ [][ReturnStep =>
            IF Len(frames) > 1
            THEN frames'[Len(frames')].deleted =
                    frames[Len(frames) - 1].deleted + Top.deleted
            ELSE returned' = Top.deleted]_vars

\* the results of a run arrived in an order other than that of its input:
\* the retry list holds a later resource before an earlier one
C35_Witness ==
    /\ pc = "destroying" /\ Len(frames) = 1 /\ parallel = 2
    /\ Top.got = Len(Top.input) /\ Top.deleted = 1
    /\ Len(Top.retry) = 2
    /\ \E i, j \in 1..Len(Top.input) :
          i < j /\ Top.retry = <<Top.input[j], Top.input[i]>>

\* C36 as stated: with a non-empty list of resources the phase returns for
\* every integer given as -parallel, zero and negative values included.
C36_Original == pool.n > 0 => <>(pool.pc = "returned")

\* with -parallel 0 the jobs are queued and the queue is closed, no worker
\* exists and the receive loop waits for its first result
C36_Witness ==
    /\ parallel <= 0 /\ pool.n > 0
    /\ pool.pc = "receive" /\ pool.got = 0 /\ pool.closed
    /\ Len(pool.jobQueue) = pool.n /\ pool.workerResults = <<>>
    /\ \A i \in Workers : pool.w[i] = NoWorker

\* every worker the run has started has returned
AllWorkersExited == \A i \in Started(parallel) : pool.w[i].pc = "exited"

CallsOf(op) == {k \in 1..Len(update.calls) : update.calls[k].op = op}

\* the imported resources of the instance's own type
Matching == {j \in 1..Len(update.imported) : update.imported[j].TypeName = OwnType}

\* the import path gives no state: ImportResource failed, no imported resource
\* has the instance's type, or a ReadResource of the loop fails before the loop
\* has got past the first resource of that type
ImportPathFails ==
    \/ update.i = 0
    \/ Matching = {}
    \/ \E k \in 1..Len(update.imported) :
          /\ update.imported[k].read = "err"
          /\ \A j \in Matching : k <= j

\* C38: an UpdateState of a resource with a state makes one provider call, a
\* ReadResource of that state, and never an ImportResource; an UpdateState of a
\* resource without a state calls ImportResource first and never reads a prior
\* state, and it goes on to the schema and the ReadResource of the id-only
\* state exactly when the import path has given no state.
C38_RefreshPath ==
    /\ update.hasState =>
          /\ \A k \in 1..Len(update.calls) :
                update.calls[k] = ProviderCall("ReadResource", OwnType, "prior", 0)
          /\ update.pc = "done" => Len(update.calls) = 1
    /\ ~update.hasState =>
          /\ \A k \in 1..Len(update.calls) :
                /\ update.calls[k].arg # "prior"
                /\ (k = 1) = (update.calls[k] = ProviderCall("ImportResource", OwnType, "id", 0))
          /\ update.pc = "done" => Len(update.calls) >= 2
          /\ CallsOf("GetSchemaForResource") # {} => ImportPathFails
          /\ \A k \in CallsOf("ReadResource") :
                update.calls[k].arg = "id-only" =>
                   /\ ImportPathFails /\ k = Len(update.calls)
                   /\ k - 1 \in CallsOf("GetSchemaForResource")
          /\ (update.pc = "done" /\ ImportPathFails) => CallsOf("GetSchemaForResource") # {}
          /\ (update.pc = "done" /\ ~ImportPathFails) =>
                update.adopted.from = "read-imported" /\ update.err = "none"

\* an UpdateState without prior state has fallen back to the id-only read after
\* an import that returned only a resource of another type
C38_Witness ==
    /\ update.pc = "done" /\ ~update.hasState
    /\ Len(update.imported) = 1 /\ Matching = {}
    /\ update.imported[1].read = "known"
    /\ update.calls[Len(update.calls)] = ProviderCall("ReadResource", OwnType, "id-only", 0)
    /\ update.adopted.from = "read-id-only"

\* a resource with a state has been refreshed by one ReadResource
C38_WitnessState ==
    /\ update.pc = "done" /\ update.hasState
    /\ update.calls = <<ProviderCall("ReadResource", OwnType, "prior", 0)>>
    /\ update.adopted.from = "read-prior"

\* C39 as stated: when ImportResource has returned several resources, one of
\* them of the instance's type and readable, the state adopted is the
\* ReadResource result of that one; a state of another type is never adopted.
C39_Original ==
    /\ update.adopted.typ \in {"", OwnType}
    /\ (/\ update.pc = "done" /\ ~update.hasState
        /\ Len(update.imported) >= 2
        /\ \E j \in Matching : Matching = {j} /\ update.imported[j].read # "err") =>
          /\ update.adopted.from = "read-imported"
          /\ update.adopted.idx \in Matching
          /\ update.adopted.val = update.imported[update.adopted.idx].read

\* ImportResource returned a resource of another type, whose ReadResource
\* fails, before the readable resource of the instance's type: the state
\* adopted is that of the id-only read
C39_Witness ==
    /\ update.pc = "done" /\ ~update.hasState
    /\ Len(update.imported) = 2
    /\ update.imported[1].TypeName # OwnType /\ update.imported[1].read = "err"
    /\ update.imported[2].TypeName = OwnType /\ update.imported[2].read = "known"
    /\ update.adopted.from = "read-id-only"
    /\ \A k \in CallsOf("ReadResource") : update.calls[k].idx # 2

====
